---- MODULE Spec2Model ----
(***************************************************************************)
(* PQ version 3.0 client transactions (postgresql/protocol/xact3.py).      *)
(*                                                                         *)
(* The Instruction transaction is modelled as the record `x`; the backend  *)
(* is the environment that presents groups of messages to the receiving    *)
(* continuation of the instruction.  A group is an object: it has an       *)
(* identity (`id`) besides its contents, because the code compares groups  *)
(* with `is` and `id()`.                                                   *)
(***************************************************************************)
EXTENDS Integers, Sequences, FiniteSets, TLC

(***************************************************************************)
(* Bounds of the model.                                                    *)
(***************************************************************************)
\* longest group of messages the backend presents at once
MaxGroupLen == 2
\* number of messages the backend sends to one instruction
MaxMessages == 3
\* number of times a group object is presented again
MaxReplays == 2
\* number of Tuple messages a scripted Execute reply carries
MaxTuples == 1
\* number of copy data chunks the submitter of a COPY FROM STDIN supplies
MaxChunks == 2
\* the number of messages the backend sends during a negotiation
MaxStartup == 4
\* the number of transactions a Connection sees, its Negotiation included
MaxXacts == 3
\* the number of statements, each with a cursor, waiting to be closed
MaxGarbage == 1
\* the number of calls of interrupt()
MaxInterrupts == 1
\* the largest major of a Version that is turned into an integer (the
\* integers of the model checker have 32 bits, one of them the sign)
MaxMajor == 32767

VARIABLES
    x,          \* the Instruction (its attributes)
    hooked,     \* the messages the asynchook was called with, in call order
    raised,     \* the exception that escaped the last call ("none" if none)
    group,      \* the group object presented last
    presented,  \* how many times in a row `group` has been presented
    groups,     \* number of group objects created so far
    delivered,  \* number of messages presented so far, over all the groups
    replays,    \* number of times a group was presented again so far
    received,   \* number of asynchronous messages consumed from new groups
    ret,        \* value returned by the last put ("count")
    trace,      \* cursor and message of each iteration of the last standard_put
    calls,      \* positions in the group whose message reached the asynchook
                \* during the last put
    first,      \* the Instruction as it was after the first presentation of `group`
    script,     \* scripted backend: the replies it sends, and how many of
                \* them the instruction has consumed
    excepthook, \* the messages whose asynchook call raised, as reported to
                \* sys.excepthook, in order
    wire,       \* the message sequence written to the backend last
    chunks,     \* number of copy data chunks written to the backend
    conn,       \* the Connection (its attributes)
    xs,         \* the transactions created on the Connection, by identity
    stack,      \* the calls of the Connection in progress, innermost last
    net,        \* the primary socket: its status, the bytes it accepted, and
                \* the number of times it was closed
    mounts,     \* the transactions set as Connection.xact so far, in order
    version     \* a Version: what it is made of, and what was made of it

\* the variables of the Connection, and the Version
connvars == <<conn, xs, stack, net, mounts, version>>

vars == <<x, hooked, raised, group, presented, groups, delivered, replays, received, ret, trace,
          calls, first, script, excepthook, wire, chunks, conn, xs, stack, net, mounts,
          version>>

(***************************************************************************)
(* xact3.py: module constants                                              *)
(***************************************************************************)
Receiving == "Receiving"
Sending == "Sending"
Complete == <<"None", "None">>

\* message types with an entry in AsynchronousMap
AsynchronousMap == {"Notice", "Notify", "ShowOption"}

\* a wire message is a pair (type, payload); the payload is kept as one value
Msg(t, d) == [type |-> t, data |-> d]

\* the names of the cursors and statements left to be closed
Names == {"a", "b"}

\* element.ClosePortal(name) and element.CloseStatement(name): two commands
\* of the type of element.Close
ClosePortal(name) == IF name = "a" THEN "ClosePortal a" ELSE "ClosePortal b"

CloseStatement(name) ==
    IF name = "a" THEN "CloseStatement a" ELSE "CloseStatement b"

\* cmd.type
type(cmd) ==
    IF cmd \in {ClosePortal(n) : n \in Names} \cup {CloseStatement(n) : n \in Names}
      THEN "Close" ELSE cmd

\* parsers: element.X.parse gives a typed message, return_arg gives the bytes
return_arg(m) == [kind |-> "bytes", type |-> "bytes", data |-> m.data]
parse(m) == [kind |-> "message", type |-> m.type, data |-> m.data]

Apply(path, m) == IF path = "return_arg" THEN return_arg(m) ELSE parse(m)

(***************************************************************************)
(* Instruction.hook: command type -> steps -> message type -> (parser,     *)
(* next step).  `done` stands for a next step of None.                     *)
(***************************************************************************)
To(n) == [path |-> "parse", next |-> n, done |-> FALSE]
Raw(n) == [path |-> "return_arg", next |-> n, done |-> FALSE]
End == [path |-> "parse", next |-> 0, done |-> TRUE]

hook(t) ==
    CASE type(t) = "Close" -> << ("CloseComplete" :> End) >>
      [] t = "Query" ->
            << ("TupleDescriptor" :> To(3)) @@ ("Null" :> To(0)) @@
               ("Complete" :> To(0)) @@ ("CopyToBegin" :> To(2)) @@
               ("CopyFromBegin" :> To(1)) @@ ("Ready" :> End),
               ("Complete" :> To(0)),
               ("CopyData" :> Raw(2)) @@ ("CopyDone" :> To(1)),
               ("Tuple" :> To(3)) @@ ("Complete" :> To(0)) @@ ("Ready" :> End) >>
      [] t = "Function" ->
            << ("FunctionResult" :> To(1)),
               ("Ready" :> End) >>
      [] t = "Parse" -> << ("ParseComplete" :> End) >>
      [] t = "Bind" -> << ("BindComplete" :> End) >>
      [] t = "Describe" ->
            << ("AttributeTypes" :> To(1)) @@ ("TupleDescriptor" :> End),
               ("NoData" :> End) @@ ("TupleDescriptor" :> End) >>
      [] t = "Execute" ->
            << ("Tuple" :> To(1)) @@ ("CopyToBegin" :> To(2)) @@
               ("CopyFromBegin" :> To(3)) @@ ("Null" :> End) @@
               ("Complete" :> End),
               ("Tuple" :> To(1)) @@ ("Suspension" :> End) @@ ("Complete" :> End),
               ("CopyData" :> Raw(2)) @@ ("CopyDone" :> To(3)),
               ("Complete" :> End) >>
      [] t = "Synchronize" -> << ("Ready" :> End) >>
      [] t = "Flush" -> << >>

\* hook[cmd.type] is None
NoHook(t) == t = "Flush"

\* Instruction.initial_state: (last messages, position, last position); the
\* group object is kept by its identity, 0 being that of the initial ().
initial_state == [grp |-> 0, c1 |-> <<0, 0>>, c2 |-> <<0, 0>>]

\* the error_message attribute before any error was recorded
NoError == [kind |-> "unset", code |-> "", severity |-> ""]

\* element.Error.parse: the fields of the backend's Error message
ErrorParse(m) == [kind |-> "Error", code |-> "42601", severity |-> m.data]

\* element.ClientError(code = '08P01', severity = 'FATAL')
ProtocolViolation == [kind |-> "ClientError", code |-> "08P01", severity |-> "FATAL"]

\* bytes.upper() on the severities the model draws
upper(s) ==
    CASE s = "fatal" -> "FATAL"
      [] s = "panic" -> "PANIC"
      [] s = "error" -> "ERROR"
      [] OTHER -> s

\* a slip: PANIC left out of the fatal severities
IsFatalNoPanic(em) == upper(em.severity) = "FATAL"

\* em['severity'].upper() in (b'FATAL', b'PANIC')
IsFatal(em) == upper(em.severity) \in {"FATAL", "PANIC"}

\* a slip: no search, the instruction stays on the failed command
SyncOffsetStay(commands, offset) == offset

\* a slip: the search keeps the last SynchronizeMessage (the break left out)
SyncOffsetLast(commands, offset) ==
    LET S == {i \in offset .. Len(commands) - 1 : commands[i + 1] = "Synchronize"}
    IN  IF S = {} THEN Len(commands)
        ELSE CHOOSE i \in S : \A j \in S : i >= j

\* for offset in range(offset, len(self.commands)): the offset of the first
\* SynchronizeMessage at or after `offset`; Len(commands) when the loop ends
\* without a break (the else branch)
SyncOffset(commands, offset) ==
    LET S == {i \in offset .. Len(commands) - 1 : commands[i + 1] = "Synchronize"}
    IN  IF S = {} THEN Len(commands)
        ELSE CHOOSE i \in S : \A j \in S : i <= j

\* while paths is None: offset += 1 ...: the offset of the next command whose
\* hook is not None, Len(commands) when there is none
NextOffset(commands, offset) ==
    LET S == {i \in offset + 1 .. Len(commands) - 1 : ~NoHook(commands[i + 1])}
    IN  IF S = {} THEN Len(commands)
        ELSE CHOOSE i \in S : \A j \in S : i <= j

(***************************************************************************)
(* Instruction.standard_put.  The loop state `st` holds the instruction    *)
(* and the locals of the method; `status` is "run" while the for loop goes *)
(* on, "break" after its break, "return" after a return from within the    *)
(* loop and "raise" when an exception left the method.                     *)
(***************************************************************************)

\* a slip: a group presented again is processed from the position reached
StartCursorReached(ins, g) == ins.last.c2

\* the cursor a put starts from: self.last[1] when the group is the one
\* processed last, self.last[2] for a new group
StartCursor(ins, g) == IF g.id = ins.last.grp THEN ins.last.c1 ELSE ins.last.c2

\* self._asyncs is cleared for a new group only
StartAsyncs(ins, g) == IF g.id = ins.last.grp THEN ins.asyncs ELSE << >>

\* the loop state before the first iteration
Start(ins, g) ==
    [x |-> [ins EXCEPT !.asyncs = StartAsyncs(ins, g)],
     offset |-> StartCursor(ins, g)[1], step |-> StartCursor(ins, g)[2],
     processed |-> << >>, count |-> 0,
     hooked |-> << >>, reported |-> << >>, calls |-> {}, trace |-> << >>,
     status |-> "run"]

\* a slip: the `return count` of the for-else branch left out, the loop goes
\* on from the last command
OnErrorNoReturn(st, m) ==
    LET em == ErrorParse(m)
        fatal == IsFatal(em)
        cmd == st.x.commands[st.offset + 1]
        x1 == [st.x EXCEPT !.error_message = em,
                           !.fatal = IF fatal THEN "True" ELSE "False"]
        sync == SyncOffset(st.x.commands, st.offset)
    IN  IF fatal
          THEN [st EXCEPT !.x = [x1 EXCEPT !.state = Complete],
                          !.status = "return"]
        ELSE IF cmd \notin {"Function", "Query"}
          THEN IF sync = Len(st.x.commands)
                 THEN [st EXCEPT !.x = [x1 EXCEPT !.state = Complete],
                                 !.offset = Len(st.x.commands) - 1, !.step = 0]
                 ELSE [st EXCEPT !.x = x1, !.offset = sync, !.step = 0]
        ELSE [st EXCEPT !.x = x1, !.step = 0]

\* if x[0] is element.Error.type: ...
OnError(st, m) ==
    LET em == ErrorParse(m)
        fatal == IsFatal(em)
        cmd == st.x.commands[st.offset + 1]
        x1 == [st.x EXCEPT !.error_message = em,
                           !.fatal = IF fatal THEN "True" ELSE "False"]
        sync == SyncOffset(st.x.commands, st.offset)
    IN  IF fatal
          THEN [st EXCEPT !.x = [x1 EXCEPT !.state = Complete],
                          !.status = "return"]
        ELSE IF cmd \notin {"Function", "Query"}
          THEN IF sync = Len(st.x.commands)
                 THEN [st EXCEPT !.x = [x1 EXCEPT !.state = Complete],
                                 !.status = "return"]
                 ELSE [st EXCEPT !.x = x1, !.offset = sync, !.step = 0]
        ELSE [st EXCEPT !.x = x1, !.step = 0]

\* x not in self._asyncs (list membership compares the messages by value)
Seen(asyncs, m) == \E i \in 1 .. Len(asyncs) : asyncs[i] = m

\* the asynchook the instructions are given: it keeps the message, and fails
\* (raises an Exception) on a Notify
HookRaises(msg) == msg.type = "Notify"

\* a slip: the message is put before the ones the hook was called with
OnAsyncFirst(st, m) ==
    IF Seen(st.x.asyncs, m) THEN st
    ELSE [st EXCEPT !.x.asyncs = Append(@, m),
                    !.hooked = <<parse(m)>> \o @,
                    !.reported = IF HookRaises(parse(m))
                                   THEN Append(@, parse(m)) ELSE @,
                    !.calls = @ \cup {st.count}]

\* elif x[0] in AsynchronousMap: ...; an exception of the hook is passed to
\* sys.excepthook and the message is recorded in _asyncs all the same
OnAsync(st, m) ==
    IF Seen(st.x.asyncs, m) THEN st
    ELSE [st EXCEPT !.x.asyncs = Append(@, m),
                    !.hooked = Append(@, parse(m)),
                    !.reported = IF HookRaises(parse(m))
                                   THEN Append(@, parse(m)) ELSE @,
                    !.calls = @ \cup {st.count}]

\* a slip: the violation is recorded but not marked fatal
OnViolationNotFatal(st, m) ==
    [st EXCEPT !.x.error_message = ProtocolViolation,
               !.x.state = Complete,
               !.status = "return"]

\* else: protocol violation
OnViolation(st, m) ==
    [st EXCEPT !.x.error_message = ProtocolViolation,
               !.x.fatal = "True",
               !.x.state = Complete,
               !.status = "return"]

\* else: valid message
OnValid(st, m, e) ==
    LET r == Apply(e.path, m)
        st1 == [st EXCEPT !.processed = Append(@, r)]
        nxt == NextOffset(st.x.commands, st.offset)
        st2 == [st1 EXCEPT !.step = 0,
                           !.offset = nxt,
                           !.x.last_ready =
                               IF r.type = "Ready" THEN r.data ELSE @]
    IN  IF ~e.done THEN [st1 EXCEPT !.step = e.next]
        ELSE IF nxt = Len(st.x.commands) THEN [st2 EXCEPT !.status = "break"]
        ELSE st2

\* one iteration of `for x in messages`
Iteration(st, m) ==
    LET cmd == st.x.commands[st.offset + 1]
        st1 == [st EXCEPT !.count = @ + 1,
                          !.trace = Append(@, [offset |-> st.offset,
                                               step |-> st.step, msg |-> m])]
        paths == hook(cmd)
    IN  IF NoHook(cmd) THEN [st1 EXCEPT !.status = "raise"]
        ELSE IF m.type \in DOMAIN paths[st.step + 1]
          THEN OnValid(st1, m, paths[st.step + 1][m.type])
        ELSE IF m.type = "Error" THEN OnError(st1, m)
        ELSE IF m.type \in AsynchronousMap THEN OnAsync(st1, m)
        ELSE OnViolation(st1, m)

RECURSIVE Loop(_, _, _)
Loop(st, msgs, i) ==
    IF i > Len(msgs) \/ st.status # "run" THEN st
    ELSE Loop(Iteration(st, msgs[i]), msgs, i + 1)

\* if not self.completed or self.completed[-1][0] != id(messages): append
PushCompleted(completed, g, processed) ==
    IF completed = << >> \/ completed[Len(completed)].id # g.id
      THEN Append(completed, [id |-> g.id, msgs |-> processed])
      ELSE completed

\* a slip: CopyFailSequence without the commands that remain
SwitchBareCopyFail(ins, offset, processed) ==
    LET last == processed[Len(processed)]
        rest == SubSeq(ins.commands, offset + 2, Len(ins.commands))
    IN  IF offset = Len(ins.commands) THEN [ins EXCEPT !.state = Complete]
        ELSE IF ins.commands[offset + 1] \in {"Execute", "Query"}
                /\ processed # << >>
          THEN IF last.kind = "bytes"
                 THEN [ins EXCEPT !.state = <<Receiving, "put_copydata">>]
               ELSE IF last.type = "CopyToBegin"
                 THEN [ins EXCEPT !.state = <<Receiving, "put_copydata">>]
               ELSE IF last.type = "Tuple"
                 THEN [ins EXCEPT !.state = <<Receiving, "put_tupledata">>]
               ELSE IF last.type = "CopyFromBegin"
                 THEN [ins EXCEPT !.CopyFailSequence = <<"CopyFail">>,
                                  !.CopyDoneSequence = <<"CopyDone">> \o rest,
                                  !.state = <<Sending, "sent_from_stdin">>]
               ELSE ins
        ELSE ins

\* the state switch at the end of standard_put
Switch(ins, offset, processed) ==
    LET last == processed[Len(processed)]
        rest == SubSeq(ins.commands, offset + 2, Len(ins.commands))
    IN  IF offset = Len(ins.commands) THEN [ins EXCEPT !.state = Complete]
        ELSE IF ins.commands[offset + 1] \in {"Execute", "Query"}
                /\ processed # << >>
          THEN IF last.kind = "bytes"
                 THEN [ins EXCEPT !.state = <<Receiving, "put_copydata">>]
               ELSE IF last.type = "CopyToBegin"
                 THEN [ins EXCEPT !.state = <<Receiving, "put_copydata">>]
               ELSE IF last.type = "Tuple"
                 THEN [ins EXCEPT !.state = <<Receiving, "put_tupledata">>]
               ELSE IF last.type = "CopyFromBegin"
                 THEN [ins EXCEPT !.CopyFailSequence = <<"CopyFail">> \o rest,
                                  !.CopyDoneSequence = <<"CopyDone">> \o rest,
                                  !.state = <<Sending, "sent_from_stdin">>]
               ELSE ins
        ELSE ins

\* the result of a put: the instruction, the value returned, the exception
\* raised and what the call did to the collaborators
standard_put(ins, g) ==
    LET st == Loop(Start(ins, g), g.msgs, 1)
        x1 == [st.x EXCEPT
                 !.completed = PushCompleted(@, g, st.processed),
                 !.last = [grp |-> g.id, c1 |-> ins.last.c2,
                           c2 |-> <<st.offset, st.step>>]]
    IN  IF st.status \in {"return", "raise"} THEN st
        ELSE [st EXCEPT !.x = Switch(x1, st.offset, st.processed)]


\* the fast paths store the whole group and leave the cursor where it was
FastPath(ins, g, stored) ==
    [x |-> [ins EXCEPT
              !.completed = PushCompleted(@, g, stored),
              !.last = [grp |-> g.id, c1 |-> ins.last.c2, c2 |-> ins.last.c2]],
     offset |-> ins.last.c2[1], step |-> ins.last.c2[2],
     processed |-> stored, count |-> Len(g.msgs),
     hooked |-> << >>, reported |-> << >>, calls |-> {}, trace |-> << >>,
     status |-> "fast"]

\* messages[-1] of an empty group raises IndexError
Raise(ins) ==
    [x |-> ins, offset |-> 0, step |-> 0, processed |-> << >>, count |-> 0,
     hooked |-> << >>, reported |-> << >>, calls |-> {}, trace |-> << >>,
     status |-> "raise"]

\* is every message of the group of type t (the fast paths' two tests)
Homogeneous(msgs, t) == \A i \in 1 .. Len(msgs) : msgs[i].type = t

\* Instruction.put_copydata
put_copydata(ins, g) ==
    IF g.msgs = << >> THEN Raise(ins)
    ELSE IF ~Homogeneous(g.msgs, "CopyData")
      THEN standard_put([ins EXCEPT !.state = <<Receiving, "standard_put">>], g)
    ELSE FastPath(ins, g, [i \in 1 .. Len(g.msgs) |-> return_arg(g.msgs[i])])

\* Instruction.put_tupledata
put_tupledata(ins, g) ==
    IF g.msgs = << >> THEN Raise(ins)
    ELSE IF ~Homogeneous(g.msgs, "Tuple")
      THEN standard_put([ins EXCEPT !.state = <<Receiving, "standard_put">>], g)
    ELSE FastPath(ins, g, [i \in 1 .. Len(g.msgs) |-> parse(g.msgs[i])])

\* op(messages) for the receiving continuation op = x.state[1]
put(ins, g) ==
    CASE ins.state[2] = "put_copydata" -> put_copydata(ins, g)
      [] ins.state[2] = "put_tupledata" -> put_tupledata(ins, g)
      [] OTHER -> standard_put(ins, g)

\* the empty tuple `messages` is set to once the commands were sent
NoMessages == [obj |-> "empty", seq |-> << >>]

\* Instruction.standard_sent
standard_sent(ins) ==
    [ins EXCEPT !.messages = NoMessages,
                !.state = <<Receiving, "standard_put">>]

\* a slip: every send ends the Sending mode
sent_from_stdin_OneShot(ins) ==
    [ins EXCEPT !.messages = NoMessages,
                !.state = <<Receiving, "standard_put">>]

\* Instruction.sent_from_stdin
sent_from_stdin(ins) ==
    IF ins.messages.obj \in {"CopyDoneSequence", "CopyFailSequence"}
      THEN [ins EXCEPT !.messages = NoMessages,
                       !.state = <<Receiving, "standard_put">>]
      ELSE [ins EXCEPT !.messages = [obj |-> "CopyFailSequence",
                                     seq |-> ins.CopyFailSequence]]

\* Instruction.messages_received: the parsed messages of every completed group
RECURSIVE Chain(_)
Chain(completed) ==
    IF completed = << >> THEN << >>
    ELSE Chain(SubSeq(completed, 1, Len(completed) - 1))
           \o completed[Len(completed)].msgs

messages_received(ins) == Chain(ins.completed)

\* Instruction.__init__
Instruction(commands) ==
    [commands |-> commands,
     completed |-> << >>,
     last |-> initial_state,
     messages |-> [obj |-> "commands", seq |-> commands],
     state |-> <<Sending, "standard_sent">>,
     fatal |-> "None",
     error_message |-> NoError,
     exception |-> "unset",
     last_ready |-> "unset",
     asyncs |-> << >>,
     CopyFailSequence |-> << >>,
     CopyDoneSequence |-> << >>]

(***************************************************************************)
(* The backend and the submitter.                                          *)
(***************************************************************************)
Pipeline == <<"Parse", "Bind", "Execute", "Synchronize",
              "Parse", "Bind", "Execute", "Synchronize">>

\* the instructions the model runs
Instructions ==
    { <<"Execute", "Synchronize">>,
      <<"Query">>,
      <<"Function">>,
      <<"Parse", "Bind">>,
      <<"Describe", "Flush", "Synchronize">>,
      <<"Flush", "Synchronize">>,
      <<"Close", "Synchronize", "Parse", "Synchronize">> }

Severities == {"ERROR", "FATAL", "PANIC", "fatal"}
Errors == {Msg("Error", s) : s \in Severities}
Asyncs == {Msg("Notice", "a"), Msg("Notify", "a"), Msg("ShowOption", "a")}
Readies == {Msg("Ready", "I"), Msg("Ready", "T")}

\* the message types some step of some command of the instruction accepts
Expected(commands) ==
    UNION {UNION {DOMAIN hook(commands[i])[s] : s \in 1 .. Len(hook(commands[i]))} :
             i \in 1 .. Len(commands)}

\* the messages the backend may send to the instruction: every reply some
\* command of the instruction expects, the errors and the asynchronous messages
Alphabet(commands) ==
    {Msg(t, "") : t \in Expected(commands) \ {"Ready"}}
      \cup Readies \cup Errors \cup Asyncs

\* The types outside the current step dictionary, Error and AsynchronousMap
\* all take the same branch of standard_put, so the backend sends one of them,
\* and every reply of the current command that comes out of turn (`late`):
\* the messages it may send where the loop state `st` stands
Choice(st) ==
    LET A == Alphabet(st.x.commands)
        cmd == st.x.commands[st.offset + 1]
        valid == IF NoHook(cmd) THEN {}
                 ELSE {m \in A : m.type \in DOMAIN hook(cmd)[st.step + 1]}
        other == A \ (valid \cup Errors \cup Asyncs)
        late == IF NoHook(cmd) THEN {}
                ELSE {m \in other : \E k \in 1 .. Len(hook(cmd)) :
                                        m.type \in DOMAIN hook(cmd)[k]}
    IN  valid \cup Errors \cup Asyncs \cup late
          \cup (IF other = {} THEN {} ELSE {CHOOSE m \in other : TRUE})

\* the message sequences of length at most n the backend may send from `st`;
\* once the put has returned, one more message may follow in the group
RECURSIVE Tails(_, _)
Tails(st, n) ==
    IF n = 0 THEN {<< >>}
    ELSE IF st.status # "run" THEN {<< >>, <<Msg("Ready", "I")>>}
    ELSE {<< >>} \cup
         UNION {{<<m>> \o t : t \in Tails(Iteration(st, m), n - 1)} :
                  m \in Choice(st)}

\* the new groups of at most n messages the backend may present
Groups(ins, id, n) == Tails(Start(ins, [id |-> id, msgs |-> << >>]), n) \ {<< >>}

\* the number of asynchronous messages among the first n messages
RECURSIVE CountAsyncs(_, _)
CountAsyncs(msgs, n) ==
    IF n = 0 THEN 0
    ELSE CountAsyncs(msgs, n - 1)
           + (IF msgs[n].type \in AsynchronousMap THEN 1 ELSE 0)

Min(a, b) == IF a < b THEN a ELSE b

\* the asynchronous messages a put took from the group
Consumed(r, msgs) ==
    IF r.status = "raise" THEN 0 ELSE CountAsyncs(msgs, r.count)

NoScript == [all |-> << >>, pos |-> 0]

NoGroup == [id |-> 0, msgs |-> << >>]

\* no Version is made
NoVersion ==
    [major_minor |-> <<0, 0>>, self |-> << >>, raised |-> "unset",
     data |-> << >>, parsed |-> << >>, int |-> -1]

\* the transaction is driven by hand: no Connection takes part
Detached ==
    /\ conn = "None"
    /\ xs = << >>
    /\ stack = << >>
    /\ net = "None"
    /\ mounts = << >>

\* the state once the instruction `ins` was constructed, nothing sent yet
Created(ins, s) ==
    /\ x = ins
    /\ script = s
    /\ hooked = << >>
    /\ raised = "none"
    /\ group = NoGroup
    /\ presented = 0
    /\ groups = 0
    /\ delivered = 0
    /\ replays = 0
    /\ received = 0
    /\ ret = 0
    /\ trace = << >>
    /\ calls = {}
    /\ first = ins
    /\ excepthook = << >>
    /\ wire = NoMessages
    /\ chunks = 0

Init ==
    /\ \E c \in Instructions : Created(Instruction(c), NoScript) /\ Detached
    /\ version = NoVersion

\* Connection.step/complete, direction Sending: the messages are written and
\* the sending continuation x.state[1]() is called
Sent ==
    /\ x.state[1] = Sending
    /\ x' = IF x.state[2] = "sent_from_stdin"
              THEN sent_from_stdin(x) ELSE standard_sent(x)
    /\ presented' = 0
    /\ raised' = "none"
    /\ wire' = x.messages
    /\ chunks' = IF x.messages.obj = "data" THEN chunks + 1 ELSE chunks
    /\ UNCHANGED <<hooked, group, groups, delivered, replays, received, ret,
                   trace, calls, first, script, excepthook, connvars>>

\* the submitter of a COPY FROM STDIN assigns `messages` before a send: the
\* next chunk of copy data, or CopyDoneSequence
SetMessages ==
    /\ x.state = <<Sending, "sent_from_stdin">>
    /\ \E m \in {[obj |-> "data", seq |-> <<"CopyData">>],
                 [obj |-> "CopyDoneSequence", seq |-> x.CopyDoneSequence]} :
          /\ x.messages # m
          /\ m.obj = "data" => chunks < MaxChunks
          /\ x' = [x EXCEPT !.messages = m]
    /\ UNCHANGED <<hooked, raised, group, presented, groups, delivered,
                   replays, received, ret, trace, calls, first, script,
                   excepthook, wire, chunks, connvars>>

\* the effect of op(g) on the instruction and on the collaborators
Deliver(g, r) ==
    /\ x' = r.x
    /\ hooked' = hooked \o r.hooked
    /\ excepthook' = excepthook \o r.reported
    /\ raised' = IF r.status = "raise" THEN "TypeError" ELSE "none"
    /\ ret' = r.count
    /\ trace' = r.trace
    /\ calls' = r.calls
    /\ group' = g

\* Connection.step/complete, direction Receiving: a group read from the wire
\* is given to the receiving continuation
Put ==
    /\ x.state[1] = Receiving
    /\ script = NoScript
    /\ delivered < MaxMessages
    /\ \E msgs \in Groups(x, groups + 1, Min(MaxGroupLen, MaxMessages - delivered)) :
         LET g == [id |-> groups + 1, msgs |-> msgs]
             r == put(x, g)
         IN  /\ Deliver(g, r)
             /\ first' = r.x
             /\ received' = received + Consumed(r, msgs)
             /\ delivered' = delivered + Len(msgs)
    /\ groups' = groups + 1
    /\ presented' = 1
    /\ UNCHANGED <<replays, script, wire, chunks, connvars>>

\* the same group object is given to the receiving continuation again
PutAgain ==
    /\ x.state[1] = Receiving
    /\ presented >= 1
    /\ replays < MaxReplays
    /\ Deliver(group, put(x, group))
    /\ presented' = presented + 1
    /\ replays' = replays + 1
    /\ UNCHANGED <<groups, delivered, received, first, script, wire, chunks,
                   connvars>>

Next == Sent \/ SetMessages \/ Put \/ PutAgain

Spec == Init /\ [][Next]_vars


(***************************************************************************)
(* A pipelined batch whose first half fails.  The backend answers the      *)
(* commands before the failing one, sends a non-fatal Error, the Ready of  *)
(* the first Sync, and then the replies of the second half; the replies    *)
(* reach the instruction split into groups in every possible way.          *)
(***************************************************************************)
Tuples(n) == [i \in 1 .. n |-> Msg("Tuple", "")]

\* the replies of the first half up to the Error, by the failing command
FailingHalf ==
    { << >>, <<Msg("ParseComplete", "")>> }
      \cup {<<Msg("ParseComplete", ""), Msg("BindComplete", "")>> \o Tuples(n) :
              n \in 0 .. MaxTuples}

SecondHalf ==
    {<<Msg("ParseComplete", ""), Msg("BindComplete", "")>> \o Tuples(n)
        \o <<Msg("Complete", ""), r>> : n \in 0 .. MaxTuples, r \in Readies}

ResyncScripts ==
    {a \o <<Msg("Error", "ERROR"), Msg("Ready", "I")>> \o b :
        a \in FailingHalf, b \in SecondHalf}

InitResync ==
    \E s \in ResyncScripts :
        /\ Created(Instruction(Pipeline), [all |-> s, pos |-> 0]) /\ Detached
        /\ version = NoVersion

\* Connection.step/complete, direction Receiving: the next replies, out of
\* the first `sent` the backend has sent, form a group; what the continuation
\* does not consume stays to be read
FeedUpTo(sent) ==
    /\ x.state[1] = Receiving
    /\ script.pos < sent
    /\ \E k \in 1 .. sent - script.pos :
         LET g == [id |-> groups + 1,
                   msgs |-> SubSeq(script.all, script.pos + 1, script.pos + k)]
             r == put(x, g)
         IN  /\ Deliver(g, r)
             /\ first' = r.x
             /\ received' = received + Consumed(r, g.msgs)
             /\ script' = [script EXCEPT !.pos = @ + r.count]
    /\ groups' = groups + 1
    /\ presented' = 1
    /\ UNCHANGED <<delivered, replays, wire, chunks, connvars>>

Feed == FeedUpTo(Len(script.all))

NextResync == Sent \/ Feed

SpecResync == InitResync /\ [][NextResync]_vars


(***************************************************************************)
(* COPY FROM STDIN.  The backend answers the copy command with              *)
(* CopyFromBegin and waits for the end of the copy data; it then sends     *)
(* Complete (only after a CopyDone) or an Error, and the Ready.            *)
(***************************************************************************)
CopyInstructions == { <<"Query">>, <<"Execute", "Synchronize">> }

CopyScripts ==
    {a \o <<Msg("CopyFromBegin", "")>> \o <<e, r>> :
        a \in {<< >>, <<Msg("Notice", "a")>>},
        e \in {Msg("Complete", ""), Msg("Error", "ERROR")},
        r \in Readies}

InitCopyIn ==
    \E c \in CopyInstructions, s \in CopyScripts :
        /\ Created(Instruction(c), [all |-> s, pos |-> 0]) /\ Detached
        /\ version = NoVersion

\* the position of the CopyFromBegin among the scripted replies
Begun == CHOOSE i \in 1 .. Len(script.all) : script.all[i].type = "CopyFromBegin"

\* the number of replies the backend has sent: the rest follows once it has
\* received the CopyDone or the CopyFail
Released ==
    IF /\ wire.obj \in {"CopyDoneSequence", "CopyFailSequence"}
       /\ script.all[Begun + 1].type = "Complete" => wire.obj = "CopyDoneSequence"
      THEN Len(script.all)
      ELSE Begun

Reply == FeedUpTo(Released)

NextCopyIn == Sent \/ SetMessages \/ Reply

SpecCopyIn == InitCopyIn /\ [][NextCopyIn]_vars


(***************************************************************************)
(* xact3.Negotiation.  The generator state_machine is kept by the position *)
(* it is suspended at (`machine`): "auth", "password", "killinfo", "ready", *)
(* and "done" once it has returned.  A payload is kept by its first four   *)
(* bytes (`head`, "short" when it has fewer) and the rest.                 *)
(***************************************************************************)
\* element.AuthRequest_*: the requests the Negotiation knows
AuthRequest_OK == 0
AuthRequest_Cleartext == 3
AuthRequest_Crypt == 4
AuthRequest_MD5 == 5
\* a request the Negotiation does not support (GSS)
AuthRequest_GSS == 7

Payload(head, rest) == [head |-> head, rest |-> rest]

\* a payload of less than four bytes has no first four bytes
Short == -1

\* the first four bytes of the payload of m
PayloadHead(m) ==
    IF m.type \in {"Authentication", "KillInformation", "CopyData"}
      THEN m.data.head ELSE Short

\* element.Authentication.parse(x[1]): the request and the salt
AuthParse(m) == [request |-> m.data.head, salt |-> m.data.rest]

\* element.KillInformation.parse(x[1])
KillParse(m) == [pid |-> m.data.head, key |-> m.data.rest]

\* element.ClientError(code = ..., severity = ...)
ClientError(code, severity) ==
    [kind |-> "ClientError", code |-> code, severity |-> severity]

\* Negotiation.__init__ (killinfo is << >> for None and <<k>> once it is k)
Negotiation ==
    [received |-> <<0>>,
     asyncs |-> << >>,
     authtype |-> "None",
     killinfo |-> << >>,
     authok |-> "None",
     last_ready |-> "None",
     machine |-> "auth",
     messages |-> [obj |-> "startup", seq |-> <<"Startup">>],
     state |-> <<Sending, "sent">>,
     fatal |-> "None",
     error_message |-> NoError,
     exception |-> "unset"]

\* xact3.Closing: the transaction that sends the disconnect message; its
\* error_message is an attribute of the class
Closing ==
    [messages |-> [obj |-> "disconnect", seq |-> <<"Disconnect">>],
     state |-> <<Sending, "sent">>,
     fatal |-> "None",
     error_message |-> ClientError("08003", "FATAL")]

\* is the transaction a Negotiation
IsNegotiation(t) == "machine" \in DOMAIN t

\* Negotiation.sent
sent(n) == [n EXCEPT !.messages = NoMessages,
                     !.state = <<Receiving, "put_messages">>]

\* what machine.send(x) gave: the negotiation, the messages yielded, and
\* whether the generator yielded, returned (StopIteration) or raised
Yield(n, out) == [n |-> n, out |-> out, status |-> "yield"]
Stop(n) == [n |-> [n EXCEPT !.machine = "done"], out |-> << >>, status |-> "stop"]
Throw(n) == [n |-> [n EXCEPT !.machine = "done"], out |-> << >>, status |-> "raise"]

\* the generator returns after recording a protocol violation
Unexpected(n) ==
    Stop([n EXCEPT !.fatal = "True", !.error_message = ClientError("08P01", "")])

\* Negotiation.unsupported_auth_request
unsupported_auth_request(n, req) ==
    [n EXCEPT !.fatal = "True",
              !.error_message =
                  [kind |-> "ClientError", code |-> "--AUT", severity |-> "",
                   message |-> <<"unsupported authentication request", req>>],
              !.state = Complete]

\* state_machine, resumed after `yield (element.Password(pw),)`: the payload is
\* parsed as an Authentication whatever the type of the message
AfterPassword(n, m) ==
    IF PayloadHead(m) = Short THEN Throw(n)
    ELSE LET n1 == [n EXCEPT !.authok = AuthParse(m)]
         IN  IF n1.authok.request # AuthRequest_OK THEN Unexpected(n1)
             ELSE Yield([n1 EXCEPT !.machine = "killinfo"], << >>)

\* a slip: an unsupported request is answered with the password
AfterStartupAnyRequest(n, m) ==
    IF m.type # "Authentication" THEN Unexpected(n)
    ELSE LET n1 == [n EXCEPT !.authtype = AuthParse(m)]
             req == n1.authtype.request
         IN  IF req = AuthRequest_OK
               THEN Yield([n1 EXCEPT !.authok = n1.authtype,
                                     !.machine = "killinfo"], << >>)
             ELSE Yield([n1 EXCEPT !.machine = "password"], <<"Password">>)

\* state_machine, resumed after `yield (self.startup_message,)`
AfterStartup(n, m) ==
    IF m.type # "Authentication" THEN Unexpected(n)
    ELSE LET n1 == [n EXCEPT !.authtype = AuthParse(m)]
             req == n1.authtype.request
         IN  IF req = AuthRequest_OK
               THEN Yield([n1 EXCEPT !.authok = n1.authtype,
                                     !.machine = "killinfo"], << >>)
             ELSE IF req \in {AuthRequest_Cleartext, AuthRequest_Crypt,
                              AuthRequest_MD5}
               THEN Yield([n1 EXCEPT !.machine = "password"], <<"Password">>)
             ELSE Stop(unsupported_auth_request(n1, req))

\* a slip: the Ready ends the negotiation without KillInformation
AfterAuthSkipKill(n, m) ==
    IF m.type = "Ready" THEN Stop([n EXCEPT !.last_ready = m.data])
    ELSE IF m.type # "KillInformation" THEN Unexpected(n)
    ELSE Yield([n EXCEPT !.killinfo = <<KillParse(m)>>, !.machine = "ready"], << >>)

\* state_machine, resumed after the first `yield None`
AfterAuth(n, m) ==
    IF m.type # "KillInformation" THEN Unexpected(n)
    ELSE Yield([n EXCEPT !.killinfo = <<KillParse(m)>>, !.machine = "ready"], << >>)

\* state_machine, resumed after the second `yield None`
AfterKill(n, m) ==
    IF m.type # "Ready" THEN Unexpected(n)
    ELSE Stop([n EXCEPT !.last_ready = m.data])

\* self.machine.send(x)
send(n, m) ==
    CASE n.machine = "auth" -> AfterStartup(n, m)
      [] n.machine = "password" -> AfterPassword(n, m)
      [] n.machine = "killinfo" -> AfterAuth(n, m)
      [] n.machine = "ready" -> AfterKill(n, m)
      [] OTHER -> Stop(n)

\* a slip: an Error is recorded but the negotiation goes on
NegErrorIgnored(st, m) ==
    [st EXCEPT !.x.error_message = ErrorParse(m)]

\* if x[0] is element.Error.type: ...
NegError(st, m) ==
    IF st.x.fatal = "None"
      THEN [st EXCEPT !.x.error_message = ErrorParse(m),
                      !.x.fatal = "True",
                      !.x.state = Complete,
                      !.status = "return"]
      ELSE st

\* one iteration of `for x in messages` of put_messages
NegIteration(st, m) ==
    LET st1 == [st EXCEPT !.count = @ + 1]
        r == send(st.x, m)
    IN  IF m.type = "Error" THEN NegError(st1, m)
        ELSE IF m.type \in AsynchronousMap
          THEN [st1 EXCEPT !.x.asyncs = Append(@, parse(m))]
        ELSE IF r.status = "raise"
          THEN [st1 EXCEPT !.x = r.n, !.status = "raise"]
        ELSE IF r.status = "stop"
          THEN [st1 EXCEPT !.x = [r.n EXCEPT !.state = Complete],
                           !.status = "return"]
        ELSE IF r.out # << >>
          THEN [st1 EXCEPT !.x = r.n, !.out = r.out, !.status = "break"]
        ELSE [st1 EXCEPT !.x = r.n]

RECURSIVE NegLoop(_, _, _)
NegLoop(st, msgs, i) ==
    IF i > Len(msgs) \/ st.status # "run" THEN st
    ELSE NegLoop(NegIteration(st, msgs[i]), msgs, i + 1)

\* Negotiation.put_messages: the negotiation, the count returned, and "raise"
\* as status when an exception left the method
put_messages(n, g) ==
    IF g.id = n.received[Len(n.received)]
      THEN [x |-> n, count |-> 0, out |-> << >>, status |-> "raise"]
    ELSE LET st == NegLoop([x |-> [n EXCEPT !.received = Append(@, g.id)],
                            count |-> 0, out |-> << >>, status |-> "run"],
                           g.msgs, 1)
         IN  IF st.status = "break"
               THEN [st EXCEPT !.x.messages = [obj |-> "password", seq |-> st.out],
                               !.x.state = <<Sending, "sent">>]
               ELSE st


(***************************************************************************)
(* client3.Connection.  The operations work on a record `w` of the         *)
(* Connection, the transactions, the socket and the calls in progress;     *)
(* `io` is what the socket does during one transition.  A unit of          *)
(* message_data is the serialization of one message, with the transaction  *)
(* it belongs to.                                                          *)
(***************************************************************************)
\* None, where a message sequence is expected
Nothing == [owner |-> 0, obj |-> "None", seq |-> << >>, gen |-> 0]

\* Connection.__init__ (self.xact is kept by its identity, 0 for None; key and
\* backend_id are << >> for None and <<v>> once they are v)
Connection ==
    [socket |-> "unset",
     xact |-> 1,
     key |-> << >>,
     backend_id |-> << >>,
     garbage_statements |-> << >>,
     garbage_cursors |-> << >>,
     read |-> NoGroup,
     message_data |-> << >>,
     writing |-> Nothing,
     written |-> Nothing,
     state |-> "INITIALIZED",
     ssl_negotiation |-> "unset"]

NoSocket == [status |-> "none", sent |-> << >>, closes |-> 0, others |-> << >>]

\* self.socket.close()
Close(w) == [w EXCEPT !.net.status = "closed", !.net.closes = @ + 1]

\* the failure the Connection records on a transaction
Failed(t, code, severity) ==
    [t EXCEPT !.state = Complete, !.fatal = "True",
              !.error_message = ClientError(code, severity)]

\* x.exception = e
Excepted(t, e) == [t EXCEPT !.exception = e]

\* the message sequence x.messages as an object: () is the same object for
\* every transaction, and standard_put makes a new CopyFailSequence and a new
\* CopyDoneSequence at every CopyFromBegin (gen tells them apart by the number
\* of groups the Instruction had completed)
Messages(id, t) ==
    IF t.messages.obj = "empty"
      THEN [owner |-> 0, obj |-> "empty", seq |-> << >>, gen |-> 0]
    ELSE [owner |-> id, obj |-> t.messages.obj, seq |-> t.messages.seq,
          gen |-> IF t.messages.obj \in {"CopyFailSequence", "CopyDoneSequence"}
                    THEN Len(t.completed) ELSE 0]

\* cat_messages
cat_messages(m) == [i \in 1 .. Len(m.seq) |-> [owner |-> m.owner, msg |-> m.seq[i]]]

\* a slip: the messages are serialized at every call
QueuedAgain(c, m) ==
    [c EXCEPT !.writing = m,
              !.message_data = @ \o cat_messages(m),
              !.written = m]

\* standard_write_messages, up to the call of send_message_data
Queued(c, m) ==
    LET c1 == IF c.writing # c.written
                THEN [c EXCEPT !.message_data = @ \o cat_messages(c.writing),
                               !.written = c.writing]
                ELSE c
    IN  IF m # c1.writing
          THEN [c1 EXCEPT !.writing = m,
                          !.message_data = @ \o cat_messages(m),
                          !.written = m]
          ELSE c1

\* the result of a read or a write: the world and how the call ended
\* ("True", "False", or the exception raised)
Ended(w, how) == [w |-> w, how |-> how]

\* send_message_data: the socket accepts the first io.n units, and then
\* all the rest ("sent"), fails for good ("fatal"), raises the fatal exception
\* for which the factory has no message ("nomessage"), or raises the try-again
\* exception, which the factory's try_again accepts ("again") or not ("denied")
send_message_data(w, id, io) ==
    LET data == w.conn.message_data
        n == IF io.kind = "sent" THEN Len(data) ELSE io.n
        w1 == [w EXCEPT !.net.sent = @ \o SubSeq(data, 1, n),
                        !.conn.message_data = SubSeq(data, n + 1, Len(data))]
    IN  IF data = << >> THEN Ended(w, "True")
        ELSE IF w.conn.socket \in {"unset", "None"} THEN Ended(w, "AttributeError")
        ELSE IF io.kind = "sent" THEN Ended(w1, "True")
        ELSE IF io.kind = "fatal"
          THEN Ended([Close(w1) EXCEPT
                        !.xs[id] = Excepted(Failed(@, "08006", "FATAL"),
                                            "fatal_exception")], "False")
        ELSE IF io.kind = "nomessage" THEN Ended(w1, "fatal_exception")
        ELSE Ended(w1, io.kind)

\* standard_write_messages
write_messages(w, id, io) ==
    send_message_data([w EXCEPT !.conn = Queued(@, Messages(id, w.xs[id]))], id, io)

\* standard_read_messages with read_into: the socket gives the group io.g
\* ("msgs"), no byte ("eof"), fails for good ("fatal"), raises the fatal
\* exception without a message ("nomessage") or the try-again exception
\* ("again", "denied")
read_messages(w, id, io) ==
    IF w.conn.read.msgs # << >> THEN Ended(w, "True")
    ELSE IF w.conn.socket \in {"unset", "None"} THEN Ended(w, "AttributeError")
    ELSE IF io.kind = "msgs" THEN Ended([w EXCEPT !.conn.read = io.g], "True")
    ELSE IF io.kind = "fatal"
      THEN Ended([Close(w) EXCEPT
                    !.xs[id] = Excepted(Failed(@, "08006", "FATAL"),
                                        "fatal_exception"),
                    !.conn.read = NoGroup], "False")
    ELSE IF io.kind = "eof"
      THEN Ended([Close(w) EXCEPT !.xs[id] = Failed(@, "08006", "FATAL"),
                                  !.conn.read = NoGroup], "False")
    ELSE IF io.kind = "nomessage" THEN Ended(w, "fatal_exception")
    ELSE Ended(w, io.kind)

\* op(messages) for a receiving continuation
Receive(op, t, g) ==
    CASE op = "put_messages" -> put_messages(t, g)
      [] op = "put_copydata" -> put_copydata(t, g)
      [] op = "put_tupledata" -> put_tupledata(t, g)
      [] OTHER -> standard_put(t, g)

\* op() for a sending continuation
Sent0(op, t) ==
    CASE op = "sent" -> sent(t)
      [] op = "sent_from_stdin" -> sent_from_stdin(t)
      [] OTHER -> standard_sent(t)

\* self.read = self.read[op(self.read):], r being what op(self.read) gave: what
\* is left is a new object, the empty () when nothing is left
Taken(w, id, r, newid) ==
    LET g == w.conn.read
        left == SubSeq(g.msgs, r.count + 1, Len(g.msgs))
    IN  IF r.status = "raise" THEN Ended(w, "Exception")
        ELSE Ended([w EXCEPT !.xs[id] = r.x,
                             !.conn.read = IF left = << >> THEN NoGroup
                                           ELSE [id |-> newid, msgs |-> left]],
                   "True")

\* a slip: the attribute is read though the transaction may not have it
LastReadyBare(t, state) == t.last_ready

\* getattr(x, 'last_ready', self.state)
LastReady(t, state) == IF t.last_ready = "unset" THEN state ELSE t.last_ready

\* the end of step and of complete: only a transaction that is not fatal is
\* removed
Unmount(w, id) ==
    IF w.xs[id].state = Complete /\ w.xs[id].fatal # "True"
      THEN [w EXCEPT !.conn.xact = 0] ELSE w


\* an exception leaves the call of the Connection and all the calls around it
Raised(w, e) == [w EXCEPT !.stack = << >>, !.raised = e]

Frame(f, id) == [f |-> f, x |-> id]

Front(q) == SubSeq(q, 1, Len(q) - 1)

\* self.xact = x
Mount(w, id) == [w EXCEPT !.conn.xact = id, !.mounts = Append(@, id)]

\* x = xact.Instruction(...); self.xact = x
MountNew(w, commands) ==
    Mount([w EXCEPT !.xs = Append(@, Instruction(commands))], Len(w.xs) + 1)

\* Connection.step, the call being the innermost frame; wr, rd and tk are what
\* write_messages, read_messages and the call of the continuation gave
step(w, id, wr, rd, tk) ==
    LET t == w.xs[id]
        op == t.state[2]
    IN  IF t.state = Complete THEN Raised(w, "RuntimeError")
        ELSE IF t.state[1] = Sending
          THEN IF wr.how = "again" THEN wr.w
               ELSE IF wr.how = "denied" THEN Raised(wr.w, "try_again_exception")
               ELSE IF wr.how \in {"AttributeError", "fatal_exception"}
                 THEN Raised(wr.w, wr.how)
               ELSE Unmount([wr.w EXCEPT !.xs[id] = Sent0(op, @)], id)
        ELSE IF rd.how = "again" THEN rd.w
        ELSE IF rd.how = "denied" THEN Raised(rd.w, "try_again_exception")
        ELSE IF rd.how \in {"AttributeError", "fatal_exception"}
          THEN Raised(rd.w, rd.how)
        ELSE IF tk.how = "Exception" THEN Raised(tk.w, tk.how)
        ELSE Unmount([tk.w EXCEPT !.conn.state = LastReady(tk.w.xs[id], @)], id)

\* a slip: the failed transaction is taken out of the slot
AbortUnmounted(w, id, proto_exc) ==
    [w EXCEPT !.xs[id] = Excepted(Failed(@, "08P01", ""), proto_exc),
              !.conn.state = "",
              !.conn.xact = 0,
              !.stack = Front(@)]

\* Connection.complete, `except Exception`: the transaction fails and complete
\* returns at once
Abort(w, id, proto_exc) ==
    [w EXCEPT !.xs[id] = Excepted(Failed(@, "08P01", ""), proto_exc),
              !.conn.state = "",
              !.stack = Front(@)]

\* a slip: a socket that would block ends the loops of complete
transitionLeaving(w, id, wr, rd, tk) ==
    LET t == w.xs[id]
        op == t.state[2]
    IN  IF t.state[1] = Sending
          THEN IF wr.how \in {"AttributeError", "fatal_exception"}
                 THEN Abort(wr.w, id, wr.how)
               ELSE IF wr.how = "denied" THEN Raised(wr.w, "try_again_exception")
               ELSE IF wr.how = "True" THEN [wr.w EXCEPT !.xs[id] = Sent0(op, @)]
               ELSE [wr.w EXCEPT !.stack = Front(@)]
        ELSE IF rd.how \in {"AttributeError", "fatal_exception"}
          THEN Abort(rd.w, id, rd.how)
        ELSE IF rd.how = "denied" THEN Raised(rd.w, "try_again_exception")
        ELSE IF rd.how # "True" THEN [rd.w EXCEPT !.stack = Front(@)]
        ELSE IF tk.how = "Exception" THEN Abort(tk.w, id, tk.how)
        ELSE tk.w

\* Connection.complete: one turn of its loops, the call being the innermost
\* frame and the transaction not Complete
transition(w, id, wr, rd, tk) ==
    LET t == w.xs[id]
        op == t.state[2]
    IN  IF t.state[1] = Sending
          THEN IF wr.how \in {"AttributeError", "fatal_exception"}
                 THEN Abort(wr.w, id, wr.how)
               ELSE IF wr.how = "denied" THEN Raised(wr.w, "try_again_exception")
               ELSE IF wr.how = "True" THEN [wr.w EXCEPT !.xs[id] = Sent0(op, @)]
               ELSE wr.w
        ELSE IF rd.how \in {"AttributeError", "fatal_exception"}
          THEN Abort(rd.w, id, rd.how)
        ELSE IF rd.how = "denied" THEN Raised(rd.w, "try_again_exception")
        ELSE IF rd.how # "True" THEN rd.w
        ELSE IF tk.how = "Exception" THEN Abort(tk.w, id, tk.how)
        ELSE tk.w

\* Connection.complete, after its loop
Completed(w, id) ==
    Unmount([w EXCEPT !.conn.state = LastReady(w.xs[id], @)], id)

\* Connection.connect, after self.complete()
Connected(w, id) ==
    IF w.xs[id].state = Complete /\ w.xs[id].fatal = "None"
      THEN IF w.xs[id].killinfo = << >> THEN Raised(w, "AttributeError")
           ELSE
           [w EXCEPT !.conn.key = <<w.xs[id].killinfo[1].key>>,
                     !.conn.backend_id = <<w.xs[id].killinfo[1].pid>>]
    ELSE IF w.conn.xact # 0 /\ w.xs[w.conn.xact].error_message.kind = "unset"
      THEN [Close(w) EXCEPT !.xs[w.conn.xact] = Failed(@, "--000", "")]
    ELSE w

\* a slip: the names that were flushed stay in the garbage lists
take_out_trashKept(w) ==
    LET xm == [i \in 1 .. Len(w.conn.garbage_cursors) |->
                  ClosePortal(w.conn.garbage_cursors[i])]
                \o [i \in 1 .. Len(w.conn.garbage_statements) |->
                        CloseStatement(w.conn.garbage_statements[i])]
                \o <<"Synchronize">>
    IN  MountNew(w, xm)

\* Connection.take_out_trash, up to self.complete()
take_out_trash(w) ==
    LET cursors == Len(w.conn.garbage_cursors)
        statements == Len(w.conn.garbage_statements)
        xm == [i \in 1 .. cursors |-> ClosePortal(w.conn.garbage_cursors[i])]
                \o [i \in 1 .. statements |->
                        CloseStatement(w.conn.garbage_statements[i])]
                \o <<"Synchronize">>
    IN  [MountNew(w, xm) EXCEPT
            !.conn.garbage_cursors = SubSeq(@, cursors + 1, Len(@)),
            !.conn.garbage_statements = SubSeq(@, statements + 1, Len(@))]

Call(w, frames) == [w EXCEPT !.stack = @ \o frames]

\* Connection.push, from `if self.xact is None:` after take_out_trash
Pushed(w, id) ==
    IF w.conn.xact # 0 THEN w
    ELSE Call(Mount(w, id), <<Frame("step", id)>>)

\* Connection.push, from `if self.xact is None:`
Mounting(w, id) ==
    IF w.conn.xact # 0 THEN w
    ELSE IF w.conn.garbage_statements # << >> \/ w.conn.garbage_cursors # << >>
      THEN Call(take_out_trash(w),
                <<Frame("take_out_trash", id), Frame("complete", Len(w.xs) + 1)>>)
    ELSE Pushed(w, id)

\* a slip: the transaction in the slot is not completed first
pushOver(w, id) ==
    IF w.xs[id].state = Complete THEN w
    ELSE Call(Mount(w, id), <<Frame("step", id)>>)

\* Connection.push
push(w, id) ==
    IF w.xs[id].state = Complete THEN w
    ELSE IF w.conn.xact # 0
      THEN Call(w, <<Frame("push", id), Frame("complete", w.conn.xact)>>)
    ELSE Mounting(w, id)

\* Connection.synchronize, from `x = xact.Instruction(...)`
Synchronizing(w) ==
    Call(MountNew(w, <<"Synchronize">>), <<Frame("complete", Len(w.xs) + 1)>>)

\* a slip: the mounted transaction is not completed first
synchronizeHasty(w) == Synchronizing(w)

\* Connection.synchronize
synchronize(w) ==
    IF w.conn.xact # 0
      THEN Call(w, <<Frame("synchronize", 0), Frame("complete", w.conn.xact)>>)
    ELSE Synchronizing(w)

\* what the socket factory and the server do during connect: the socket is
\* made or not, the answer to the SSL request (or recv raises while it is
\* awaited), and whether securing works
ConnectOutcomes(ssl) ==
    {[socket |-> "timeout", reply |-> "-", secure |-> "-"],
     [socket |-> "refused", reply |-> "-", secure |-> "-"]}
    \cup (IF ssl = "None"
            THEN {[socket |-> "ok", reply |-> "-", secure |-> "-"]}
            ELSE {[socket |-> "ok", reply |-> "N", secure |-> "-"],
                  [socket |-> "ok", reply |-> "other", secure |-> "-"],
                  [socket |-> "ok", reply |-> "raise", secure |-> "-"],
                  [socket |-> "ok", reply |-> "S", secure |-> "ok"],
                  [socket |-> "ok", reply |-> "S", secure |-> "raise"]})

\* Connection.negotiate_ssl
negotiate_ssl(w, o) ==
    [w EXCEPT !.net.sent = Append(@, [owner |-> 0, msg |-> "NegotiateSSL"]),
              !.conn.ssl_negotiation =
                  CASE o.reply = "S" -> "True"
                    [] o.reply = "N" -> "False"
                    [] o.reply = "raise" -> @
                    [] OTHER -> "None"]

\* Connection.connect
connect(w, ssl, o) ==
    LET id == w.conn.xact
        w1 == [w EXCEPT !.conn.socket = "plain", !.net.status = "open"]
        w2 == IF ssl = "None" THEN w1 ELSE negotiate_ssl(w1, o)
        supported == w2.conn.ssl_negotiation
        negotiate == Call(w2, <<Frame("connect", id), Frame("complete", id)>>)
    IN  IF w.conn.socket # "unset" THEN w
        ELSE IF o.socket # "ok"
          THEN [w EXCEPT !.conn.socket = "None",
                         !.xs[id] = Excepted(Failed(@, IF o.socket = "timeout"
                                                         THEN "--TOE"
                                                         ELSE "08004", "FATAL"),
                                             o.socket)]
        ELSE IF ssl = "None" THEN negotiate
        ELSE IF o.reply = "raise" THEN Raised(w2, "timeout_exception")
        ELSE IF supported = "None"
          THEN [Close(w2) EXCEPT !.xs[id] = Failed(@, "08P01", "")]
        ELSE IF supported = "False" /\ ssl = "True"
          THEN [Close(w2) EXCEPT !.xs[id] = Failed(@, "--SEC", "")]
        ELSE IF supported = "False" THEN negotiate
        ELSE IF o.secure = "raise"
          THEN [Close(w2) EXCEPT
                  !.xs[id] = Excepted(Failed(@, "--SEC", ""), "Exception")]
        ELSE [negotiate EXCEPT !.conn.socket = "secure"]

\* the calls in progress run on until one of them needs the socket
RECURSIVE Settle(_)
Settle(w) ==
    IF w.stack = << >> THEN w
    ELSE LET top == w.stack[Len(w.stack)]
             w0 == [w EXCEPT !.stack = Front(@)]
         IN  CASE top.f = "complete" ->
                    IF w.xs[top.x].state = Complete
                      THEN Settle(Completed(w0, top.x)) ELSE w
               [] top.f = "step" -> w
               [] top.f = "connect" -> Settle(Connected(w0, top.x))
               [] top.f = "push" -> Settle(Mounting(w0, top.x))
               [] top.f = "take_out_trash" -> Settle(Pushed(w0, top.x))
               [] OTHER -> Settle(Synchronizing(w0))

\* the Connection and its surroundings as one record, and back
World ==
    [conn |-> conn, xs |-> xs, stack |-> stack, net |-> net, mounts |-> mounts,
     raised |-> "none"]

Becomes(w) ==
    /\ conn' = w.conn
    /\ xs' = w.xs
    /\ stack' = w.stack
    /\ net' = w.net
    /\ mounts' = w.mounts
    /\ raised' = w.raised


(***************************************************************************)
(* The Connection at work.  A call of its interface runs until it needs    *)
(* the socket; Transition is one use of the socket by the innermost call   *)
(* (one turn of the loop of complete, or the body of step) and what        *)
(* follows it up to the next use.                                          *)
(***************************************************************************)
\* the messages a backend may send while the connection is being negotiated
NegAlphabet ==
    {Msg("Authentication", Payload(AuthRequest_OK, "")),
     Msg("Authentication", Payload(AuthRequest_MD5, "salt")),
     Msg("Authentication", Payload(AuthRequest_GSS, "")),
     Msg("KillInformation", Payload(4242, "key")),
     Msg("CopyData", Payload(0, "")),
     Msg("Ready", "I"),
     Msg("Error", "FATAL"),
     Msg("Notice", "a")}

NegGroups(n) == UNION {[1 .. k -> NegAlphabet] : k \in 1 .. n}

\* of the messages a backend may send to an Instruction, the Connection is
\* shown the end of a command, the start of a COPY, a Tuple, a failed and a
\* fatal Error, a Notice and a Ready
Shown(m) ==
    /\ m.type \in {"Complete", "CloseComplete", "CopyFromBegin", "CopyToBegin",
                 "Tuple", "Error", "Notice", "Ready"}
    /\ m.type = "Error" => m.data \in {"ERROR", "FATAL"}

\* the groups the socket may give to the transaction t
Arrivals(t, id, n) ==
    IF IsNegotiation(t) THEN NegGroups(n)
    ELSE {g \in Groups(t, id, n) : \A i \in 1 .. Len(g) : Shown(g[i])}

\* the socket is not used
Quiet == [kind |-> "none", g |-> NoGroup, n |-> 0]

Trouble(k, n) == [kind |-> k, g |-> NoGroup, n |-> n]

\* what the socket may do during a transition of the transaction id
IOs(w, id) ==
    LET t == w.xs[id]
        data == Queued(w.conn, Messages(id, t)).message_data
        gid == 2 * groups + 1
        n == Min(MaxGroupLen,
                 (IF IsNegotiation(t) THEN MaxStartup ELSE MaxMessages) - delivered)
    IN  IF t.state = Complete \/ w.conn.socket \in {"unset", "None"} THEN {Quiet}
        ELSE IF t.state[1] = Receiving
          THEN IF w.conn.read.msgs # << >> THEN {Quiet}
               ELSE IF w.net.status = "closed" THEN {Trouble("fatal", 0)}
               ELSE {[kind |-> "msgs", g |-> [id |-> gid, msgs |-> m], n |-> 0] :
                        m \in Arrivals(t, gid, n)}
                    \cup {Trouble(k, 0) :
                            k \in {"eof", "fatal", "nomessage", "again", "denied"}}
        ELSE IF data = << >> THEN {Quiet}
        ELSE IF w.net.status = "closed" THEN {Trouble("fatal", 0)}
        ELSE {Trouble("sent", 0), Trouble("fatal", 0), Trouble("nomessage", 0)}
             \cup {Trouble(k, j) : k \in {"again", "denied"}, j \in 0 .. Len(data) - 1}

\* nothing but the Connection, its transactions and the socket changes
Apart ==
    UNCHANGED <<x, hooked, group, presented, replays, received, ret, trace,
                calls, first, excepthook, wire, chunks, version>>

\* Connection.connect(ssl), up to its use of the socket for the Negotiation
Connecting(ssl) ==
    /\ stack = << >>
    /\ conn.socket = "unset"
    /\ \E o \in ConnectOutcomes(ssl) :
         \E v \in {Settle(connect(World, ssl, o))} : Becomes(v)
    /\ UNCHANGED <<groups, delivered, script>>
    /\ Apart

\* Connection.connect(ssl)
Connect == \E ssl \in {"None", "True", "False"} : Connecting(ssl)

\* Connection.connect(ssl = True): SSL is required
Require == Connecting("True")

\* the innermost call of w uses the socket: the messages are written or read,
\* the continuation is called, and the call goes on as far as it can; `script`
\* keeps the messages the backend has sent to the Negotiation and how many of
\* them were taken
Using(w1, ios) ==
    LET top == w1.stack[Len(w1.stack)]
        id == top.x
        dir == xs[id].state[1]
        op == xs[id].state[2]
        newid == 2 * groups + 2
        w0 == IF top.f = "step" THEN [w1 EXCEPT !.stack = Front(@)] ELSE w1
    IN  \E io \in ios :
        \E wr \in {IF dir = Sending THEN write_messages(w0, id, io) ELSE Ended(w0, "-")},
           rd \in {IF dir = Receiving THEN read_messages(w0, id, io) ELSE Ended(w0, "-")} :
        \E r \in {IF dir = Receiving
                    THEN Receive(op, rd.w.xs[id], rd.w.conn.read) ELSE << >>} :
        \E tk \in {IF dir = Receiving THEN Taken(rd.w, id, r, newid) ELSE rd} :
        \E w \in {IF top.f = "step" THEN step(w1, id, wr, rd, tk)
                                    ELSE transition(w1, id, wr, rd, tk)} :
        \E v \in {Settle(w)} :
          /\ Becomes(v)
          /\ groups' = IF io.kind = "msgs" \/ w.conn.read.id = newid
                         THEN groups + 1 ELSE groups
          /\ delivered' = delivered + Len(io.g.msgs)
          /\ script' = IF IsNegotiation(xs[id])
                         THEN [all |-> script.all \o io.g.msgs,
                               pos |-> Len(script.all) + Len(io.g.msgs)
                                         - Len(v.conn.read.msgs)]
                         ELSE script

\* the same, the socket doing whatever it may
Uses(w1) == Using(w1, IOs(w1, w1.stack[Len(w1.stack)].x))

\* a call in progress (connect, push, complete, synchronize) goes on
Transition ==
    /\ stack # << >>
    /\ Uses(World)
    /\ Apart

NextNegotiation == Connect \/ Transition

\* Connection.__init__: the Negotiation is mounted, nothing is connected
InitNegotiation ==
    /\ Created(Negotiation, NoScript)
    /\ conn = Connection
    /\ xs = <<Negotiation>>
    /\ stack = << >>
    /\ net = NoSocket
    /\ mounts = <<1>>
    /\ version = NoVersion

SpecNegotiation == InitNegotiation /\ [][NextNegotiation]_vars


(***************************************************************************)
(* An established Connection and its user, who pushes instructions, steps, *)
(* completes, synchronizes, and leaves cursors and statements to close.    *)
(***************************************************************************)
\* the instructions the user pushes
Pushes == { <<"Query">>, <<"Execute", "Synchronize">>, <<"Flush", "Synchronize">> }

\* the Negotiation after Authentication OK, KillInformation and Ready
Accepted ==
    put_messages(sent(Negotiation),
                 [id |-> 1,
                  msgs |-> <<Msg("Authentication", Payload(AuthRequest_OK, "")),
                             Msg("KillInformation", Payload(4242, "key")),
                             Msg("Ready", "I")>>]).x

\* the Connection after connect() without SSL and that negotiation
Established ==
    [Connection EXCEPT !.socket = "plain",
                       !.xact = 0,
                       !.key = <<"key">>,
                       !.backend_id = <<4242>>,
                       !.state = "I",
                       !.writing = Messages(1, Negotiation),
                       !.written = Messages(1, Negotiation)]

InitConnection ==
    /\ x = Negotiation
    /\ first = Negotiation
    /\ script = NoScript
    /\ hooked = << >>
    /\ raised = "none"
    /\ group = NoGroup
    /\ presented = 0
    /\ groups = 1
    /\ delivered = 0
    /\ replays = 0
    /\ received = 0
    /\ ret = 0
    /\ trace = << >>
    /\ calls = {}
    /\ excepthook = << >>
    /\ wire = NoMessages
    /\ chunks = 0
    /\ conn = Established
    /\ xs = <<Accepted>>
    /\ stack = << >>
    /\ net = [status |-> "open", sent |-> cat_messages(Messages(1, Negotiation)),
              closes |-> 0, others |-> << >>]
    /\ mounts = <<1>>
    /\ version = NoVersion

\* Connection.push(x), x a new Instruction
Push ==
    /\ stack = << >>
    /\ Len(xs) + (IF conn.garbage_cursors = << >> THEN 0 ELSE 1) < MaxXacts
    /\ \E c \in Pushes :
         \E v \in {Settle(push([World EXCEPT !.xs = Append(@, Instruction(c))],
                               Len(xs) + 1))} : Becomes(v)
    /\ UNCHANGED <<groups, delivered, script>>
    /\ Apart

\* Connection.step()
Step ==
    /\ stack = << >>
    /\ IF conn.xact = 0
         THEN /\ Becomes(Raised(World, "AttributeError"))
              /\ UNCHANGED <<groups, delivered, script>>
         ELSE Uses(Call(World, <<Frame("step", conn.xact)>>))
    /\ Apart

\* Connection.complete(), up to its use of the socket
Finish ==
    /\ stack = << >>
    /\ \E v \in {IF conn.xact = 0 THEN Raised(World, "AttributeError")
                  ELSE Settle(Call(World, <<Frame("complete", conn.xact)>>))} :
         Becomes(v)
    /\ UNCHANGED <<groups, delivered, script>>
    /\ Apart

\* Connection.synchronize(), up to its use of the socket
Synchronize ==
    /\ stack = << >>
    /\ Len(xs) < MaxXacts
    /\ \E v \in {Settle(synchronize(World))} : Becomes(v)
    /\ UNCHANGED <<groups, delivered, script>>
    /\ Apart

\* a statement and the cursor on it are discarded, between two calls of the
\* Connection or while it takes out the trash: their names are left to be
\* closed
Discard ==
    /\ stack = << >> \/ \E i \in 1 .. Len(stack) : stack[i].f = "take_out_trash"
    /\ Len(conn.garbage_cursors) < MaxGarbage
    /\ \E n \in {IF conn.garbage_cursors = << >> THEN "a" ELSE "b"} :
         conn' = [conn EXCEPT !.garbage_cursors = Append(@, n),
                              !.garbage_statements = Append(@, n)]
    /\ UNCHANGED <<xs, stack, net, mounts, raised, groups, delivered, script>>
    /\ Apart

\* a slip: the CancelRequest goes out on the socket of the Connection
interruptPrimary(w, o) ==
    [w EXCEPT !.net.sent =
                  Append(@, [owner |-> 0, msg |-> "CancelRequest"]),
              !.net.others =
                  Append(@, [status |-> "closed", sent |-> << >>])]

\* Connection.interrupt: o says whether the factory makes the socket and
\* whether sendall works on it; net.others keeps that socket, what it was
\* given and whether it was closed
interrupt(w, o) ==
    LET cq == [msg |-> "CancelRequest", pid |-> w.conn.backend_id,
               key |-> w.conn.key]
    IN  [w EXCEPT !.net.others =
            Append(@, IF o.socket # "ok"
                        THEN [status |-> "none", sent |-> << >>]
                      ELSE IF o.send # "ok"
                        THEN [status |-> "closed", sent |-> << >>]
                      ELSE [status |-> "closed", sent |-> <<cq>>])]

\* Connection.interrupt(), by another thread, whatever the Connection is at
Interrupt ==
    /\ Len(net.others) < MaxInterrupts
    /\ \E o \in [socket : {"ok", "raise"}, send : {"ok", "raise"}] :
         \E v \in {interrupt([World EXCEPT !.raised = raised], o)} : Becomes(v)
    /\ UNCHANGED <<groups, delivered, script>>
    /\ Apart

\* an established Connection, its user and the thread that interrupts
NextInterrupt == Push \/ Step \/ Finish \/ Transition \/ Interrupt

SpecInterrupt == InitConnection /\ [][NextInterrupt]_vars

\* what a backend that answers every instruction in full sends for the
\* commands: rows, the end of the command and Ready for a Query, a notice, an
\* Error and the Ready of the Sync for an Execute, and the Ready of the Sync
\* after a Flush
Answer(commands) ==
    IF commands = <<"Query">>
      THEN <<Msg("Tuple", ""), Msg("Complete", ""), Msg("Ready", "T")>>
    ELSE IF commands[1] = "Flush" THEN <<Msg("Ready", "I")>>
    ELSE <<Msg("Notice", "a"), Msg("Error", "ERROR"), Msg("Ready", "I")>>

\* the number of messages that backend sends to the instructions before id
RECURSIVE Before(_, _)
Before(ts, id) ==
    IF id <= 2 THEN 0
    ELSE Before(ts, id - 1) + Len(Answer(ts[id - 1].commands))

\* what the socket does when it accepts in the end all that is written and
\* the backend answers in full: the replies come in any fragments, and send
\* and recv may raise the try-again exception that try_again accepts
LiveIOs(w, id) ==
    LET t == w.xs[id]
        data == Queued(w.conn, Messages(id, t)).message_data
        gid == 2 * groups + 1
        given == delivered - Before(w.xs, id)
        left == SubSeq(Answer(t.commands), given + 1, Len(Answer(t.commands)))
    IN  IF t.state = Complete THEN {Quiet}
        ELSE IF t.state[1] = Receiving
          THEN IF w.conn.read.msgs # << >> THEN {Quiet}
               ELSE {[kind |-> "msgs",
                      g |-> [id |-> gid, msgs |-> SubSeq(left, 1, k)], n |-> 0] :
                        k \in 1 .. Min(MaxGroupLen, Len(left))}
                    \cup {Trouble("again", 0)}
        ELSE IF data = << >> THEN {Quiet}
        ELSE {Trouble("sent", 0)}
             \cup {Trouble("again", j) : j \in 0 .. Len(data) - 1}

\* of these, the uses of the socket in which send or recv does not raise
Moves(w, id) == {io \in LiveIOs(w, id) : io.kind # "again"}

\* and those in which it raises the try-again exception
Stalls(w, id) == {io \in LiveIOs(w, id) : io.kind = "again"}

\* a call in progress goes on, the socket having accepted or given something
Progress ==
    /\ stack # << >>
    /\ Using(World, Moves(World, stack[Len(stack)].x))
    /\ Apart

\* a call in progress meets a socket that would block
Stall ==
    /\ stack # << >>
    /\ Using(World, Stalls(World, stack[Len(stack)].x))
    /\ Apart

\* an established Connection whose socket blocks now and then, but not for
\* ever
NextLive == Push \/ Finish \/ Progress \/ Stall

SpecLive == InitConnection /\ [][NextLive]_vars /\ WF_vars(Progress)

\* a Connection that is connected with SSL required, and completed by its
\* user whatever connect() made of it
NextSecure == Require \/ Finish \/ Transition

SpecSecure == InitNegotiation /\ [][NextSecure]_vars

NextConnection == Push \/ Step \/ Finish \/ Synchronize \/ Discard \/ Transition

SpecConnection == InitConnection /\ [][NextConnection]_vars


(***************************************************************************)
(* version.py: a Version is made of two integers, written as four bytes,   *)
(* read back from them, and turned into one integer.                       *)
(***************************************************************************)
\* struct.pack('!HH', a, b) works for these
Short16 == 0 .. 65535

\* struct.pack('!HH', a, b): two unsigned 16 bit integers, the high byte
\* first
pack(a, b) == <<a \div 256, a % 256, b \div 256, b % 256>>

\* struct.unpack('!HH', data)
unpack(data) == <<data[1] * 256 + data[2], data[3] * 256 + data[4]>>

\* a | b for two naturals
RECURSIVE BitOr(_, _)
BitOr(a, b) ==
    IF a = 0 THEN b
    ELSE IF b = 0 THEN a
    ELSE (IF a % 2 = 1 \/ b % 2 = 1 THEN 1 ELSE 0)
           + 2 * BitOr(a \div 2, b \div 2)

\* Version.__new__: the tuple, or << >> and the ValueError raised
Version(major_minor) ==
    IF major_minor[1] \in Short16 /\ major_minor[2] \in Short16
      THEN [self |-> major_minor, raised |-> "none"]
    ELSE [self |-> << >>, raised |-> "ValueError"]

CancelRequestCode == Version(<<1234, 5678>>).self
NegotiateSSLCode == Version(<<1234, 5679>>).self

\* the components a Version is made of: the ends of the range of a
\* component and of its bytes, what lies just outside, and the reserved codes
Components == {-1, 0, 1, 255, 256, 1234, 5678, 5679, 32767, 65535, 65536}

InitVersion ==
    /\ Created(Negotiation, NoScript) /\ Detached
    /\ \E major, minor \in Components :
         version = [NoVersion EXCEPT !.major_minor = <<major, minor>>]

\* nothing but the Version changes
Aside ==
    UNCHANGED <<x, hooked, raised, group, presented, groups, delivered, replays,
                received, ret, trace, calls, first, script, excepthook, wire,
                chunks, conn, xs, stack, net, mounts>>

\* Version((major, minor))
New ==
    /\ version.raised = "unset"
    /\ \E v \in {Version(version.major_minor)} :
         version' = [version EXCEPT !.self = v.self, !.raised = v.raised]
    /\ Aside

\* Version.bytes
Bytes ==
    /\ version.self # << >>
    /\ version.data = << >>
    /\ version' = [version EXCEPT !.data = pack(version.self[1], version.self[2])]
    /\ Aside

\* Version.parse(data), data being what bytes() gave
Parse ==
    /\ version.data # << >>
    /\ version.parsed = << >>
    /\ version' = [version EXCEPT !.parsed = Version(unpack(version.data)).self]
    /\ Aside

\* a slip: the major is shifted by one byte only
ToIntByte ==
    /\ version.self # << >>
    /\ version.self[1] <= MaxMajor
    /\ version.int = -1
    /\ version' = [version EXCEPT
                     !.int = BitOr(version.self[1] * 256, version.self[2])]
    /\ Aside

\* Version.__int__
ToInt ==
    /\ version.self # << >>
    /\ version.self[1] <= MaxMajor
    /\ version.int = -1
    /\ version' = [version EXCEPT
                     !.int = BitOr(version.self[1] * 65536, version.self[2])]
    /\ Aside

NextVersion == New \/ Bytes \/ Parse \/ ToInt

SpecVersion == InitVersion /\ [][NextVersion]_vars


(***************************************************************************)
(* The claims.  `trace` holds, for every iteration of the last             *)
(* standard_put, the cursor the message was validated at.                  *)
(***************************************************************************)
CmdAt(e) == x.commands[e.offset + 1]

\* the command has a step dictionary and the message type is not in it
NoPath(e) ==
    /\ ~NoHook(CmdAt(e))
    /\ e.msg.type \notin DOMAIN hook(CmdAt(e))[e.step + 1]

FatalSeverity(m) == m.data \in {"FATAL", "PANIC", "fatal", "panic"}

NonFatalError(e) == NoPath(e) /\ e.msg.type = "Error" /\ ~FatalSeverity(e.msg)

\* the offsets of the Sync commands at or after the command of e
SyncsFrom(e) ==
    {j \in e.offset .. Len(x.commands) - 1 : x.commands[j + 1] = "Synchronize"}

FirstSync(e) == CHOOSE j \in SyncsFrom(e) : \A k \in SyncsFrom(e) : j <= k

\* a non-fatal Error for a command other than Query/Function with a Sync ahead
ResyncError(e) ==
    /\ NonFatalError(e)
    /\ CmdAt(e) \notin {"Query", "Function"}
    /\ SyncsFrom(e) # {}

ScriptDone == script.all # << >> /\ script.pos = Len(script.all)

\* the scripted replies but the Error, parsed
ScriptReplies ==
    LET kept == SelectSeq(script.all, LAMBDA m : m.type # "Error")
    IN  [i \in 1 .. Len(kept) |-> parse(kept[i])]

\* the group without its asynchronous messages
Strip(msgs) == SelectSeq(msgs, LAMBDA m : m.type \notin AsynchronousMap)

\* C1: in the batch [Parse, Bind, Execute, Sync, Parse, Bind, Execute, Sync]
\* with a non-fatal Error before the first Sync, however the replies are split
\* into groups, the instruction is Complete exactly when every reply was
\* consumed, and then fatal is False, error_message is the Error, last_ready is
\* the last Ready and completed holds every reply but the Error, in order.
C1_ResyncDiscipline ==
    /\ x.state = Complete => ScriptDone
    /\ ScriptDone =>
         /\ x.state = Complete
         /\ x.fatal = "False"
         /\ x.error_message = ErrorParse(Msg("Error", "ERROR"))
         /\ x.last_ready = script.all[Len(script.all)].data
         /\ messages_received(x) = ScriptReplies
         /\ raised = "none"

\* the Error hit the first Execute after a Tuple, and the replies came in at
\* least four groups
C1_Witness ==
    /\ ScriptDone
    /\ x.state = Complete
    /\ Len(x.completed) >= 4
    /\ \E i \in 1 .. Len(script.all) - 1 :
         script.all[i].type = "Tuple" /\ script.all[i + 1].type = "Error"

C3_WaitsForReady ==
    \A i \in 1 .. Len(trace) - 1 :
        (/\ NonFatalError(trace[i])
         /\ CmdAt(trace[i]) \in {"Query", "Function"}
         /\ trace[i + 1].msg.type = "Ready")
        => /\ trace[i + 1].offset = trace[i].offset
           /\ i + 1 = Len(trace) =>
                /\ x.fatal = "False"
                /\ x.error_message = ErrorParse(trace[i].msg)
                /\ x.last_ready = trace[i + 1].msg.data
                /\ x.state = Complete \/ x.last.c2[1] > trace[i].offset

\* C4: a non-fatal Error for a command other than Query/Function with no Sync
\* at or after it completes the instruction at once: fatal False, error_message
\* the Error, and the put returns the count up to the Error.
C4_NoSyncCompletes ==
    \A i \in 1 .. Len(trace) :
        (/\ NonFatalError(trace[i])
         /\ CmdAt(trace[i]) \notin {"Query", "Function"}
         /\ SyncsFrom(trace[i]) = {})
        => /\ i = Len(trace)
           /\ ret = i
           /\ raised = "none"
           /\ x.state = Complete
           /\ x.fatal = "False"
           /\ x.error_message = ErrorParse(trace[i].msg)

\* the Error came for the second command and a message of the group was left
C4_Witness ==
    /\ trace # << >>
    /\ NonFatalError(trace[Len(trace)])
    /\ CmdAt(trace[Len(trace)]) = "Bind"
    /\ SyncsFrom(trace[Len(trace)]) = {}
    /\ ret < Len(group.msgs)
    /\ x.state = Complete

C7_IdempotentPut ==
    (presented = 2 /\ raised = "none")
    => /\ x.completed = first.completed
       /\ x.last.c2 = first.last.c2
       /\ x.state = first.state
       /\ Cardinality({i \in 1 .. Len(x.completed) :
                          x.completed[i].id = group.id}) = 1

\* the group moved the cursor and switched to the tuple fast path, and was
\* presented again
C7_Witness ==
    /\ presented = 2
    /\ raised = "none"
    /\ x.state = <<Receiving, "put_tupledata">>
    /\ x.last.c2 # first.last.c1
    /\ Len(group.msgs) = 2

\* C8: however many times a group is presented in a row, every replay starts
\* from the cursor that held before its first presentation, and the cursor,
\* state, fatal, error_message and completed are those of one presentation.
C8_ReplaysFromSameCursor ==
    (presented >= 2 /\ raised = "none")
    => /\ trace # << >> =>
            <<trace[1].offset, trace[1].step>> = first.last.c1
       /\ x.last.c2 = first.last.c2
       /\ x.state = first.state
       /\ x.fatal = first.fatal
       /\ x.error_message = first.error_message
       /\ x.completed = first.completed

\* C9: the asynchook is called once for every asynchronous message received.
C9_HookedOnce == Len(hooked) = received

\* C10: the first presentation of a group calls the asynchook for every
\* position of the group that holds an asynchronous message, whatever the
\* content of the others; a further presentation calls it for none.
C10_KeyedOnPosition ==
    /\ (presented = 1 /\ raised = "none") =>
          calls = {i \in 1 .. ret : group.msgs[i].type \in AsynchronousMap}
    /\ presented >= 2 => calls = {}

\* the instruction `ins` after the group g without its asynchronous messages
\* (no group is presented when nothing is left of it)
WithoutAsyncs(ins, g) ==
    IF Strip(g.msgs) = << >> THEN ins
    ELSE put(ins, [id |-> g.id, msgs |-> Strip(g.msgs)]).x

\* C11: a new group leaves the cursor, the state, fatal, error_message and the
\* messages of messages_received() as the same group without its asynchronous
\* messages would have left them, whether the asynchook raises or not.
C11_AsyncIsolation ==
    [][(groups' = groups + 1 /\ raised' = "none") =>
          LET ref == WithoutAsyncs(x, group')
          IN  /\ x'.last.c2 = ref.last.c2
              /\ x'.state = ref.state
              /\ x'.fatal = ref.fatal
              /\ x'.error_message = ref.error_message
              /\ messages_received(x') = messages_received(ref)]_vars

\* the message type a fast path stores in bulk
FastType(ins) == IF ins.state[2] = "put_copydata" THEN "CopyData" ELSE "Tuple"

\* C14: with put_copydata (put_tupledata) as the receiving continuation, a new
\* group is stored by the fast path exactly when all its messages are CopyData
\* (Tuple), and either way the completed list, the cursor and the state are
\* those an instruction with standard_put as its continuation gets for the
\* group from the same cursor.
C14_FastPathEquivalence ==
    [][(/\ groups' = groups + 1
        /\ x.state[1] = Receiving
        /\ x.state[2] \in {"put_copydata", "put_tupledata"}) =>
          LET ref == standard_put([x EXCEPT !.state = <<Receiving, "standard_put">>],
                                  group').x
          IN  /\ trace' = << >> <=> Homogeneous(group'.msgs, FastType(x))
              /\ x'.completed = ref.completed
              /\ x'.last.c2 = ref.last.c2
              /\ x'.state = ref.state]_vars

\* the commands after the copy command, the first of the instruction
Remaining == Tail(x.commands)

\* the instruction is in the Sending mode of a COPY FROM STDIN
CopyIn == x.state = <<Sending, "sent_from_stdin">>

\* x.messages was not assigned by the submitter
Unassigned == x.messages.obj \notin {"data", "CopyDoneSequence"}

\* the replies the backend sent after the CopyFromBegin
Ending == script.all[Begun + 1]

\* C12: in the Sending mode of a COPY FROM STDIN, a send with `messages` left
\* unassigned writes CopyFailSequence = (CopyFail, remaining commands) (the
\* send that opens the mode has nothing to write and arms CopyFailSequence);
\* the instruction is then Receiving with standard_put, and the Error and the
\* Ready that follow complete it with fatal False.
C12_CopyFailOnMissingData ==
    /\ [][(CopyIn /\ Unassigned /\ wire' = x.messages /\ x'.messages # x.messages) =>
            IF x.messages = NoMessages
              THEN /\ x'.state = x.state
                   /\ x'.messages = [obj |-> "CopyFailSequence",
                                     seq |-> <<"CopyFail">> \o Remaining]
              ELSE /\ wire' = [obj |-> "CopyFailSequence",
                               seq |-> <<"CopyFail">> \o Remaining]
                   /\ x'.state = <<Receiving, "standard_put">>
                   /\ x'.last = x.last]_vars
    /\ [](wire.obj = "CopyFailSequence" =>
            IF ScriptDone
              THEN /\ x.state = Complete
                   /\ x.fatal = "False"
                   /\ x.error_message = ErrorParse(Ending)
                   /\ x.last_ready = script.all[Len(script.all)].data
              ELSE x.state = <<Receiving, "standard_put">>)

\* a chunk of copy data was sent, the next send found nothing assigned, and
\* the replies to the CopyFail completed the Execute and its Sync
C12_Witness ==
    /\ wire.obj = "CopyFailSequence"
    /\ chunks >= 1
    /\ x.commands = <<"Execute", "Synchronize">>
    /\ ScriptDone
    /\ x.state = Complete

\* C13: a Query answered with CopyFromBegin is in the Sending mode until the
\* copy is ended, however many chunks of copy data are sent (one per send);
\* once CopyDoneSequence was sent it is Receiving, and the Complete and the
\* Ready that follow complete it, fatal not True, last_ready that of the Ready.
C13_CopyFromStdin ==
    x.commands = <<"Query">> =>
      /\ (script.pos = Begun
            /\ wire.obj \notin {"CopyDoneSequence", "CopyFailSequence"}) => CopyIn
      /\ wire.obj = "CopyDoneSequence" =>
            /\ wire.seq = <<"CopyDone">>
            /\ IF ScriptDone
                  THEN /\ x.state = Complete
                       /\ x.fatal # "True"
                       /\ x.last_ready = script.all[Len(script.all)].data
                       /\ Ending.type = "Complete" =>
                             /\ x.fatal = "None"
                             /\ messages_received(x) =
                                  [i \in 1 .. 3 |-> parse(Strip(script.all)[i])]
                  ELSE x.state = <<Receiving, "standard_put">>

\* the most chunks were sent before the CopyDone, and the Query completed
C13_Witness ==
    /\ x.commands = <<"Query">>
    /\ chunks = MaxChunks
    /\ wire.obj = "CopyDoneSequence"
    /\ Ending.type = "Complete"
    /\ ScriptDone
    /\ x.state = Complete


\* the Negotiation of the Connection
negxact == xs[1]

\* the negotiation succeeded
Negotiated == negxact.state = Complete /\ negxact.fatal = "None"

\* the replies of a valid startup, asynchronous messages left out
ValidStartups ==
    LET ok == Msg("Authentication", Payload(AuthRequest_OK, ""))
        md5 == Msg("Authentication", Payload(AuthRequest_MD5, "salt"))
        rest == <<Msg("KillInformation", Payload(4242, "key")), Msg("Ready", "I")>>
    IN  {<<ok>> \o rest, <<md5, ok>> \o rest}

\* C15: a Negotiation that is Complete with fatal = None has killinfo and
\* last_ready set; when the backend sent a valid startup (Authentication OK, or
\* a challenge and OK, then KillInformation, then Ready, asynchronous messages
\* anywhere) and all of it was taken, the Negotiation is in that state with the
\* pid, the key and the status the backend sent; once connect has returned
\* after a successful negotiation the Connection has killinfo.pid as backend_id
\* and killinfo.key as key, and both are None in every other case.
C15_NegotiationSucceeds ==
    /\ Negotiated => negxact.killinfo # << >> /\ negxact.last_ready # "None"
    /\ (Strip(script.all) \in ValidStartups /\ script.pos = Len(script.all)) =>
          /\ Negotiated
          /\ negxact.killinfo = <<[pid |-> 4242, key |-> "key"]>>
          /\ negxact.last_ready = "I"
    /\ IF stack = << >> /\ conn.socket # "unset" /\ Negotiated
         THEN /\ conn.backend_id = <<negxact.killinfo[1].pid>>
              /\ conn.key = <<negxact.killinfo[1].key>>
         ELSE conn.backend_id = << >> /\ conn.key = << >>

\* connect has returned after a negotiation with a challenge, a password and a
\* valid rest
C15_Witness ==
    /\ stack = << >>
    /\ Negotiated
    /\ Strip(script.all) \in ValidStartups
    /\ negxact.authtype.request = AuthRequest_MD5
    /\ conn.backend_id = <<4242>>


\* an Error is among the messages the Negotiation has taken
ErrorTaken == \E i \in 1 .. script.pos : script.all[i].type = "Error"

\* C16: once the Negotiation has taken an Error message, at whatever point
\* (before Authentication, after the Password, before KillInformation, before
\* Ready), it is Complete with fatal = True and error_message the parsed
\* Error, and the Error is the last message taken: what the backend sent after
\* it is not consumed.
C16_ErrorEndsNegotiation ==
    ErrorTaken =>
        /\ negxact.state = Complete
        /\ negxact.fatal = "True"
        /\ script.all[script.pos].type = "Error"
        /\ negxact.error_message = ErrorParse(script.all[script.pos])

\* the Error came as the reply to the Password, with a message after it in the
\* same read
C16_Witness ==
    /\ ErrorTaken
    /\ negxact.machine = "password"
    /\ Len(net.sent) = 2
    /\ conn.read.msgs # << >>
    /\ stack = << >>


\* the messages the Negotiation has taken, asynchronous messages left out
Replies == Strip(SubSeq(script.all, 1, script.pos))

\* the Negotiation ended as a protocol violation
Violation ==
    /\ negxact.state = Complete
    /\ negxact.fatal = "True"
    /\ negxact.error_message.code = "08P01"

\* the first reply asked for a password
Challenged ==
    /\ Len(Replies) >= 1
    /\ Replies[1].type = "Authentication"
    /\ Replies[1].data.head \in {AuthRequest_Cleartext, AuthRequest_Crypt,
                                  AuthRequest_MD5}

\* C17: a message of a type other than Authentication (Error and asynchronous
\* messages apart) taken as the first reply to the Startup, or as the reply to
\* the Password, is a fatal protocol violation: state = Complete, fatal = True,
\* error_message.code = "08P01".
C17_AuthenticationExpected ==
    /\ (Len(Replies) >= 1 /\ Replies[1].type \notin {"Authentication", "Error"})
          => Violation
    /\ (Challenged /\ Len(Replies) >= 2
          /\ Replies[2].type \notin {"Authentication", "Error"})
          => Violation


\* the first reply is an Authentication with a request that is not supported
Unsupported ==
    /\ Len(Replies) >= 1
    /\ Replies[1].type = "Authentication"
    /\ Replies[1].data.head \notin {AuthRequest_OK, AuthRequest_Cleartext,
                                     AuthRequest_Crypt, AuthRequest_MD5}

\* C18: when the first Authentication carries a request other than OK,
\* Cleartext, Crypt or MD5, the Negotiation is Complete with fatal = True and an
\* error_message of code "--AUT" that holds the number of the request; no
\* Password is written, no message after the Authentication is taken, and
\* neither killinfo nor last_ready is ever set.
C18_UnsupportedRequest ==
    Unsupported =>
        /\ negxact.state = Complete
        /\ negxact.fatal = "True"
        /\ negxact.error_message.code = "--AUT"
        /\ negxact.error_message.message[2] = Replies[1].data.head
        /\ \A i \in 1 .. Len(net.sent) : net.sent[i].msg # "Password"
        /\ Len(Replies) = 1
        /\ negxact.killinfo = << >>
        /\ negxact.last_ready = "None"

\* connect has returned after a GSS request, the backend having sent more
C18_Witness ==
    /\ Unsupported
    /\ Replies[1].data.head = AuthRequest_GSS
    /\ script.pos < Len(script.all)
    /\ stack = << >>


\* no call is in progress: the last call of the user has returned
Returned == stack = << >>

\* a transaction that is Complete and not fatal has left the slot
Cleared ==
    (Returned /\ conn.xact # 0) =>
        ~(xs[conn.xact].state = Complete /\ xs[conn.xact].fatal # "True")

\* a transaction that is fatal is the one in the slot
Retained ==
    Returned => \A id \in 1 .. Len(xs) : xs[id].fatal = "True" => conn.xact = id

\* C19: after any sequence of push, step, complete and synchronize, when a call
\* has returned the slot does not hold a transaction that is Complete without
\* fatal = True, and a transaction with fatal = True is the mounted one, with
\* the error_message it had when it became fatal.
C19_SlotDiscipline ==
    /\ []Cleared
    /\ []Retained
    /\ [][\A id \in 1 .. Len(xs) :
            xs[id].fatal = "True" =>
                xs'[id].error_message = xs[id].error_message]_vars


\* the units written to the socket and, after them, those waiting to be
Wire == net.sent \o conn.message_data

\* the rank of the transaction id among the transactions mounted
Rank(id) == CHOOSE i \in 1 .. Len(mounts) : mounts[i] = id

\* C20: the slot holds one transaction, the last one mounted, or none; the
\* instructions run in the order they were mounted in: when a unit of a
\* transaction is queued or sent, every transaction mounted before it is
\* Complete, and on the wire the units of a transaction never come after a
\* unit of a transaction mounted later.
C20_StrictFifo ==
    /\ conn.xact \in {0, mounts[Len(mounts)]}
    /\ \A i, j \in 1 .. Len(mounts) : mounts[i] = mounts[j] => i = j
    /\ \A k \in 1 .. Len(Wire) :
         \A i \in 1 .. Rank(Wire[k].owner) - 1 : xs[mounts[i]].state = Complete
    /\ \A k, l \in 1 .. Len(Wire) :
         k < l => Rank(Wire[k].owner) <= Rank(Wire[l].owner)

\* two instructions were pushed one after the other and the Execute and the
\* Synchronize of the second are written
C20_Witness ==
    /\ Len(mounts) = 3
    /\ xs[mounts[2]].commands \in Pushes
    /\ xs[mounts[3]].commands = <<"Execute", "Synchronize">>
    /\ Len(net.sent) = Len(xs[mounts[2]].commands) + 3
    /\ net.sent[Len(net.sent)] = [owner |-> mounts[3], msg |-> "Synchronize"]

\* the transaction is an Instruction that take_out_trash built
IsTrash(t) == ~IsNegotiation(t) /\ type(t.commands[1]) = "Close"

\* the transaction is an Instruction of the user
IsPushed(t) == ~IsNegotiation(t) /\ t.commands \in Pushes

\* the calls of take_out_trash in progress, by the place of their frame
Flushing == {i \in 1 .. Len(stack) - 1 : stack[i].f = "take_out_trash"}

\* the units of data that belong to the transaction id
Of(data, id) == SelectSeq(data, LAMBDA u : u.owner = id)

\* ClosePortal for each cursor, CloseStatement for each statement, one Sync
FlushOf(cursors, statements) ==
    [i \in 1 .. Len(cursors) |-> ClosePortal(cursors[i])]
      \o [i \in 1 .. Len(statements) |-> CloseStatement(statements[i])]
      \o <<"Synchronize">>

\* a step in which take_out_trash builds and mounts its Instruction
Builds == Len(xs') > Len(xs) /\ IsTrash(xs'[Len(xs')])

\* a step in which push mounts the user's instruction id
MountsPushed(id) ==
    /\ mounts' = Append(mounts, id)
    /\ IsPushed(xs'[id])

\* q begins with p
Prefix(p, q) == Len(p) <= Len(q) /\ SubSeq(q, 1, Len(p)) = p

\* C21: when push(x) mounts x and there is garbage, an Instruction of
\* ClosePortal for every garbage cursor, CloseStatement for every garbage
\* statement and one Sync was built (and the names in it were removed from
\* the garbage lists), all of it was sent and it is Complete before any
\* command of x is queued or sent; without garbage x is mounted at once; the
\* names appended after the Instruction was built stay in the lists.
C21_TrashFirst ==
    [][/\ Builds =>
            /\ xs'[Len(xs')].commands
                  = FlushOf(conn.garbage_cursors, conn.garbage_statements)
            /\ mounts' = Append(mounts, Len(xs'))
            /\ conn'.garbage_cursors = << >>
            /\ conn'.garbage_statements = << >>
       /\ ~Builds =>
            /\ Prefix(conn.garbage_cursors, conn'.garbage_cursors)
            /\ Prefix(conn.garbage_statements, conn'.garbage_statements)
       /\ \A id \in 1 .. Len(xs') : MountsPushed(id) =>
            /\ Of(net.sent \o conn.message_data, id) = << >>
            /\ IF Flushing = {}
                 THEN /\ conn.garbage_cursors = << >>
                      /\ conn.garbage_statements = << >>
                 ELSE \A i \in Flushing :
                        /\ stack[i].x = id
                        /\ IsTrash(xs[stack[i + 1].x])
                        /\ xs'[stack[i + 1].x].state = Complete
                        /\ Of(net'.sent, stack[i + 1].x)
                             = cat_messages([owner |-> stack[i + 1].x,
                                             seq |-> xs[stack[i + 1].x].commands])
                        /\ Of(conn'.message_data, stack[i + 1].x) = << >>]_vars

\* the trash was taken out without an error, the user's instruction was
\* mounted after it and sent, and a name discarded meanwhile is still garbage
C21_Witness ==
    \E k \in 2 .. Len(mounts) :
      /\ IsPushed(xs[mounts[k]])
      /\ IsTrash(xs[mounts[k - 1]])
      /\ xs[mounts[k - 1]].error_message = NoError
      /\ Of(net.sent, mounts[k]) # << >>
      /\ conn.garbage_cursors # << >>

\* the transaction is the Instruction of one Sync that synchronize builds
IsSync(t) == ~IsNegotiation(t) /\ t.commands = <<"Synchronize">>

\* the calls in progress are those of a synchronize()
InSynchronize(calls_, ts) ==
    \/ \E i \in 1 .. Len(calls_) : calls_[i].f = "synchronize"
    \/ calls_ # << >> /\ calls_[1].f = "complete" /\ IsSync(ts[calls_[1].x])

\* a step of synchronize(): its start, or a use of the socket during it
Synchronizes ==
    \/ InSynchronize(stack, xs)
    \/ stack = << >> /\ InSynchronize(stack', xs')

\* the Close messages among the units of data
Closes(data) == SelectSeq(data, LAMBDA u : type(u.msg) = "Close")

\* C22: synchronize() mounts its Instruction of one Sync only when the
\* transaction that was mounted is Complete; the Sync is queued once and, unless
\* the socket fails, sent once; when the call returns that Instruction is
\* Complete; during the call no Close message is queued or sent and
\* garbage_cursors and garbage_statements do not change.  (A Sync that the
\* socket refused for good is not sent, whatever becomes of its Instruction.)
C22_BareSync ==
    /\ [][Synchronizes =>
             /\ conn'.garbage_cursors = conn.garbage_cursors
             /\ conn'.garbage_statements = conn.garbage_statements
             /\ Closes(net'.sent \o conn'.message_data)
                  = Closes(net.sent \o conn.message_data)
             /\ Len(xs') > Len(xs) =>
                  /\ Len(xs') = Len(xs) + 1
                  /\ xs'[Len(xs')] = Instruction(<<"Synchronize">>)
                  /\ mounts' = Append(mounts, Len(xs'))
                  /\ conn.xact # 0 => xs'[conn.xact].state = Complete
             /\ stack' = << >> /\ raised' = "none" =>
                  /\ IsSync(xs'[mounts'[Len(mounts')]])
                  /\ xs'[mounts'[Len(mounts')]].state = Complete]_vars
    /\ [](\A id \in 1 .. Len(xs) : IsSync(xs[id]) =>
             /\ Len(Of(net.sent \o conn.message_data, id)) <= 1
             /\ xs[id].state = Complete /\ xs[id].fatal # "True"
                   /\ xs[id].exception = "unset" =>
                  Of(net.sent, id) = <<[owner |-> id, msg |-> "Synchronize"]>>)

\* synchronize() has returned: the instruction that was mounted is Complete,
\* the Sync after it was sent and answered, and the garbage is still there
C22_Witness ==
    /\ stack = << >>
    /\ conn.garbage_cursors # << >>
    /\ conn.garbage_statements # << >>
    /\ \E k \in 2 .. Len(mounts) :
         /\ IsSync(xs[mounts[k]])
         /\ IsPushed(xs[mounts[k - 1]])
         /\ xs[mounts[k - 1]].state = Complete
         /\ xs[mounts[k]].state = Complete
         /\ xs[mounts[k]].error_message = NoError
         /\ Of(net.sent, mounts[k]) # << >>

\* the transaction a step() of this step of the model works on, 0 if no
\* step() runs in it: step() called by the user (of the calls of the user
\* only this one returns at once and leaves the transactions and garbage
\* lists there are), or by push
Stepped ==
    IF stack = << >>
      THEN IF /\ stack' = << >>
              /\ Len(xs') = Len(xs)
              /\ conn'.garbage_cursors = conn.garbage_cursors
             THEN conn.xact ELSE 0
    ELSE IF stack[Len(stack)].f = "step" THEN stack[Len(stack)].x
    ELSE 0

\* the socket raised its fatal exception, with a message, in this step
FatalRaised(id) ==
    /\ net'.closes = net.closes + 1
    /\ xs'[id].exception = "fatal_exception"

\* the socket was closed and the transaction failed with 08006
Broken(t, socket) ==
    /\ socket.status = "closed"
    /\ t.state = Complete
    /\ t.fatal = "True"
    /\ t.error_message.code = "08006"

\* C23: when the socket raises the fatal exception during step(), sending
\* or receiving, and step() returns, the socket is closed and the mounted
\* transaction is Complete, fatal, with the code 08006.
C23_FatalInStep ==
    [][Stepped # 0 /\ FatalRaised(Stepped) /\ raised' = "none" =>
          Broken(xs'[Stepped], net')]_vars

\* the transaction whose step() or complete() uses the socket in this step
Used == IF stack = << >> THEN conn.xact ELSE stack[Len(stack)].x

\* recv gave no byte to the Instruction id, which was Receiving
EofWhileReceiving(id) ==
    /\ ~IsNegotiation(xs[id])
    /\ xs[id].state[1] = Receiving
    /\ net'.closes = net.closes + 1
    /\ xs'[id].exception # "fatal_exception"

\* C24: when recv returns no byte while the mounted instruction is
\* Receiving (in standard_put, put_copydata or put_tupledata), step() or
\* complete() returns with the instruction Complete, fatal, with the code
\* 08006, and the socket closed.
C24_EofWhileReceiving ==
    [][Used # 0 /\ EofWhileReceiving(Used) =>
          raised' = "none" /\ Broken(xs'[Used], net')]_vars

\* the serialization of the message sequence seq of the transaction id
Serial(id, seq) == cat_messages([owner |-> id, seq |-> seq])

\* the number of times the Instruction was told to send COPY data: its
\* groups that end with CopyFromBegin
Rounds(t) ==
    Cardinality({i \in 1 .. Len(t.completed) :
                   /\ t.completed[i].msgs # << >>
                   /\ t.completed[i].msgs[Len(t.completed[i].msgs)].type
                        = "CopyFromBegin"})

RECURSIVE Times(_, _)
Times(seq, n) == IF n = 0 THEN << >> ELSE seq \o Times(seq, n - 1)

\* what the socket may have of the Instruction t, or is still to be given:
\* its commands, and its CopyFailSequence once for every round but the one
\* that is being presented (the user of the model provides no COPY data)
Presented(id, t) ==
    LET C == Serial(id, t.commands)
        F == Serial(id, t.CopyFailSequence)
        k == Rounds(t)
    IN  IF t.state = <<Sending, "standard_sent">> THEN {<< >>, C}
        ELSE IF k = 0 THEN {C}
        ELSE IF t.state = <<Sending, "sent_from_stdin">> /\ t.messages.obj = "empty"
          THEN {C \o Times(F, k - 1)}
        ELSE IF t.state[1] = Receiving /\ t.fatal # "True"
          THEN {C \o Times(F, k)}
        ELSE {C \o Times(F, k - 1), C \o Times(F, k)}

\* the socket would block while step() was sending: data is left, the
\* socket was not closed and it is not the fatal exception that send raised
BlockedSending(id) ==
    /\ xs[id].state[1] = Sending
    /\ conn'.message_data # << >>
    /\ net'.closes = net.closes
    /\ raised' # "fatal_exception"

\* the socket accepts what the transactions present, once and in order: what
\* it accepted is never taken back and is followed by what is still queued,
\* which only grows at its end; for every Instruction the units accepted and
\* queued are the serialization of the message sequences it presented
Resumed ==
    /\ [][Prefix(net.sent, net'.sent) /\ Prefix(Wire, Wire')]_vars
    /\ [](\A id \in 1 .. Len(xs) :
             ~IsNegotiation(xs[id]) => Of(Wire, id) \in Presented(id, xs[id]))

\* C25 as it is stated: a step() in which send raises the try-again
\* exception returns and leaves the transaction as it was (one whose recv
\* raises it changes nothing at all), and the socket accepts what the
\* transactions present, once and in order.
C25_TryAgainReturns ==
    /\ [][Stepped # 0 /\ BlockedSending(Stepped) =>
             /\ xs'[Stepped] = xs[Stepped]
             /\ raised' = "none"
             /\ stack' = << >>]_vars
    /\ Resumed

\* C25, amended: a step() in which send raises the try-again exception
\* returns, or lets that exception and no other pass when the factory's
\* try_again denies it, and either way leaves the transaction as it was;
\* the socket accepts what the transactions present, once and in order,
\* the calls that were left by the exception included.
C25_ResumedSends ==
    /\ [][Stepped # 0 /\ BlockedSending(Stepped) =>
             /\ xs'[Stepped] = xs[Stepped]
             /\ raised' \in {"none", "try_again_exception"}
             /\ stack' = << >>]_vars
    /\ Resumed

\* push has returned from a step() in which the socket accepted the Execute
\* and then would block: the Synchronize is queued and the instruction is as
\* it was
C25_Witness ==
    \E id \in 1 .. Len(xs) :
      /\ stack = << >>
      /\ raised = "none"
      /\ conn.xact = id
      /\ net.status = "open"
      /\ xs[id] = Instruction(<<"Execute", "Synchronize">>)
      /\ net.sent[Len(net.sent)] = [owner |-> id, msg |-> "Execute"]
      /\ conn.message_data = <<[owner |-> id, msg |-> "Synchronize"]>>

\* C26: no call of push, step, complete or synchronize raises an exception,
\* whatever the state of the Connection (an empty slot and a retained fatal
\* transaction included), but the try-again exception that the factory's
\* try_again denies.
C26_NeverRaises == raised \in {"none", "try_again_exception"}

\* C27: once a transaction has failed fatally (a fatal socket exception,
\* EOF, an Error of severity FATAL or PANIC, a protocol violation) and the
\* call has returned, close() of the socket was called, and whatever is
\* called later it is never called a second time.
C27_ClosedOnce ==
    /\ net.closes <= 1
    /\ (stack = << >> /\ \E id \in 1 .. Len(xs) : xs[id].fatal = "True") =>
          net.closes = 1

\* push(x) is called and returns in this step, a transaction that failed
\* fatally being retained in the slot; x is a new Instruction
PushedAfterFatal ==
    /\ stack = << >>
    /\ conn.xact # 0
    /\ xs[conn.xact].state = Complete
    /\ xs[conn.xact].fatal = "True"
    /\ stack' = << >>
    /\ raised' = "none"
    /\ Len(xs') = Len(xs) + 1
    /\ IsPushed(xs'[Len(xs')])

\* the transaction shows the failure of Closing
Sentinel(t) == t.fatal = "True" /\ t.error_message = Closing.error_message

\* C28: after a fatal error, push(x) of an instruction that is not Complete
\* shows the submitter the failure of Closing (fatal, code 08003), on x or on
\* the mounted transaction: x is not left unmounted, not Complete and
\* without an error.
C28_ClosingSentinel ==
    [][PushedAfterFatal =>
          \/ Sentinel(xs'[Len(xs')])
          \/ conn'.xact # 0 /\ Sentinel(xs'[conn'.xact])]_vars

\* the transaction whose complete() makes the next transition, 0 if none
Completing ==
    IF stack # << >> /\ stack[Len(stack)].f = "complete"
      THEN stack[Len(stack)].x ELSE 0

\* complete() caught an exception that is not the try-again exception: it
\* is stored in the transaction, and the socket was not closed for it
Caught(id) ==
    /\ xs'[id].exception # xs[id].exception
    /\ net'.closes = net.closes

\* the transaction is failed as a protocol error, complete() has returned
\* and the transaction is in the slot, unless the caller of complete() is
\* synchronize(), which mounts its own right after
Aborted(id) ==
    /\ xs'[id].state = Complete
    /\ xs'[id].fatal = "True"
    /\ xs'[id].error_message.code = "08P01"
    /\ xs'[id].exception \in {"Exception", "AttributeError", "fatal_exception"}
    /\ raised' = "none"
    /\ \A i \in 1 .. Len(stack') : stack'[i] # Frame("complete", id)
    /\ \/ conn'.xact = id
       \/ Len(stack) > 1 /\ stack[Len(stack) - 1].f = "synchronize"

\* C29 as stated: in complete(), every exception but an accepted try-again
\* is caught: the transaction ends Complete, fatal, with code 08P01 and the
\* exception stored, complete() returns and the transaction stays mounted;
\* so the try-again exception never leaves complete().
C29_AnyException ==
    [][Completing # 0 =>
          /\ raised' = "none"
          /\ Caught(Completing) => Aborted(Completing)]_vars

\* C29: in complete(), an exception that is not the try-again exception is
\* caught: the transaction ends Complete, fatal, with code 08P01 and the
\* exception stored, complete() returns and the transaction stays mounted;
\* only the try-again exception that try_again denies leaves complete(), and
\* then no transaction has changed and the slot is as it was.
C29_CaughtInComplete ==
    [][Completing # 0 =>
          /\ raised' \in {"none", "try_again_exception"}
          /\ Caught(Completing) => Aborted(Completing)
          /\ raised' = "try_again_exception" =>
                xs' = xs /\ conn'.xact = conn.xact]_vars

\* complete() has returned after recv raised a fatal exception for which the
\* factory has no message: the instruction is failed with 08P01 and mounted
C29_Witness ==
    /\ stack = << >>
    /\ raised = "none"
    /\ conn.xact # 0
    /\ IsPushed(xs[conn.xact])
    /\ xs[conn.xact].state = Complete
    /\ xs[conn.xact].fatal = "True"
    /\ xs[conn.xact].error_message.code = "08P01"
    /\ xs[conn.xact].exception = "fatal_exception"

\* what was sent after the SSL request went out on a socket that was not
\* secured
PlainlySent ==
    IF conn.socket = "secure" THEN << >>
    ELSE SelectSeq(net.sent, LAMBDA u : u.msg # "NegotiateSSL")

\* connect() has closed the socket and failed the Negotiation with the code
Refused(code) ==
    /\ net'.status = "closed"
    /\ net'.closes = 1
    /\ xs'[1].state = Complete
    /\ xs'[1].fatal = "True"
    /\ xs'[1].error_message.code = code

\* connect() got the answer to its SSL request
Answered == conn.socket = "unset" /\ conn'.ssl_negotiation # "unset"

\* connect(ssl = True): when the server answers N or another byte, or
\* secure() raises, the socket is closed and the Negotiation is failed
C30_Refusals ==
    [][Answered =>
          /\ conn'.ssl_negotiation = "False" => Refused("--SEC")
          /\ conn'.ssl_negotiation = "None" => Refused("08P01")
          /\ conn'.ssl_negotiation = "True" /\ conn'.socket # "secure" =>
                Refused("--SEC")]_vars

\* C30: after connect(ssl = True), no Startup and no Password message is ever
\* sent on a socket that is not secured; an answer N or a failure of secure()
\* closes the socket and fails the Negotiation with --SEC, another byte
\* with 08P01.
C30_NoPlainStartup == C30_Refusals /\ [](PlainlySent = << >>)

\* interrupt() is called in this step
Interrupts == Len(net'.others) = Len(net.others) + 1

\* C31: interrupt(), at any point between and during the calls of the
\* Connection, opens a socket of its own, sends on it one CancelRequest made
\* of backend_id and key and closes it, also when the send raises; the
\* socket of the Connection, what was read, what is queued to be written
\* and the mounted transaction are left as they were.
C31_InterruptApart ==
    /\ [][Interrupts =>
             /\ conn' = conn /\ xs' = xs /\ stack' = stack /\ mounts' = mounts
             /\ raised' = raised
             /\ net' = [net EXCEPT !.others = net'.others]]_vars
    /\ [](\A i \in 1 .. Len(net.others) :
             /\ net.others[i].status \in {"none", "closed"}
             /\ net.others[i].status = "none" => net.others[i].sent = << >>
             /\ \A k \in 1 .. Len(net.others[i].sent) :
                   /\ k = 1
                   /\ net.others[i].sent[k] =
                         [msg |-> "CancelRequest", pid |-> <<4242>>,
                          key |-> <<"key">>])

\* interrupt() has sent its CancelRequest and closed its socket while
\* complete() was under way with messages still to be written
C31_Witness ==
    /\ stack # << >>
    /\ stack[Len(stack)].f = "complete"
    /\ conn.message_data # << >>
    /\ net.status = "open"
    /\ net.others # << >>
    /\ net.others[1].status = "closed"
    /\ net.others[1].sent # << >>

\* C32: a Version of two components in 0..65535 written as bytes and parsed
\* is the same pair, and as an integer it is major * 65536 + minor, which
\* makes the reserved codes 0x04D2162E (CancelRequest) and 0x04D2162F
\* (NegotiateSSL); a component outside 0..65535 is refused with ValueError.
C32_VersionRoundTrip ==
    LET major == version.major_minor[1]
        minor == version.major_minor[2]
        valid == major \in 0 .. 65535 /\ minor \in 0 .. 65535
    IN  /\ version.raised # "unset" =>
              IF valid
                THEN version.raised = "none" /\ version.self = <<major, minor>>
              ELSE version.raised = "ValueError" /\ version.self = << >>
        /\ version.parsed # << >> => version.parsed = <<major, minor>>
        /\ version.int # -1 => version.int = major * 65536 + minor
        /\ version.int # -1 /\ version.self = CancelRequestCode =>
              version.int = 80877102
        /\ version.int # -1 /\ version.self = NegotiateSSLCode =>
              version.int = 80877103

\* the CancelRequest code was written, parsed and turned into an integer
C32_Witness ==
    /\ version.self = CancelRequestCode
    /\ Len(version.data) = 4
    /\ version.parsed = <<1234, 5678>>
    /\ version.int = 80877102

\* the least number of calls of socket.send the step has made: one that
\* returned, the socket having accepted something, and one that raised, the
\* loop of send_message_data having ended with data left
Sends ==
    (IF Len(net'.sent) > Len(net.sent) THEN 1 ELSE 0)
      + (IF conn'.message_data # << >> THEN 1 ELSE 0)

\* C33: one call of step() makes at most one call of send or recv on the
\* socket of the Connection.
C33_OneSocketCall ==
    [][Stepped # 0 /\ xs[Stepped].state[1] = Sending => Sends <= 1]_vars

\* the message i of the last put ended the instruction as a protocol
\* violation
Violated(i) ==
    /\ i = Len(trace)
    /\ x.state = Complete
    /\ x.fatal = "True"
    /\ x.error_message.code = "08P01"

\* the message i of the last put completed its command: it is no
\* violation, and the message after it is for a later command
Completes(i) ==
    /\ ~Violated(i)
    /\ i < Len(trace) => trace[i + 1].offset > trace[i].offset

\* C34: a Describe is completed by TupleDescriptor or by NoData, at once or
\* (TupleDescriptor only) after AttributeTypes; every other reply but
\* Error and the asynchronous messages is a protocol violation 08P01.
C34_DescribeReplies ==
    \A i \in 1 .. Len(trace) :
        CmdAt(trace[i]) = "Describe" =>
          LET m == trace[i].msg.type
              apart == AsynchronousMap \cup {"Error"}
          IN  /\ trace[i].step = 0 /\ m \in {"NoData", "TupleDescriptor"} =>
                    Completes(i)
              /\ trace[i].step = 0 /\ m = "AttributeTypes" => ~Violated(i)
              /\ trace[i].step = 0
                    /\ m \notin {"NoData", "TupleDescriptor", "AttributeTypes"}
                            \cup apart => Violated(i)
              /\ trace[i].step = 1 /\ m = "TupleDescriptor" => Completes(i)
              /\ trace[i].step = 1 /\ m \notin {"TupleDescriptor"} \cup apart =>
                    Violated(i)

\* the commands with every Flush removed
Unflushed(commands) == SelectSeq(commands, LAMBDA c : c # "Flush")

\* what the first group does to the Instruction of the same commands
\* without the Flushes
Flushless == standard_put(standard_sent(Instruction(Unflushed(x.commands))), group)

\* C35: a Flush in the commands expects no reply: the first group of replies
\* does to the Instruction what it does to the Instruction of the same
\* commands without the Flushes: the put takes as many messages, and the
\* instruction is Complete, fatal and in error alike.
C35_FlushTransparent ==
    (/\ groups = 1 /\ presented = 1
     /\ \E i \in 1 .. Len(x.commands) : x.commands[i] = "Flush") =>
        /\ raised = "none"
        /\ Flushless.status # "raise"
        /\ ret = Flushless.count
        /\ (x.state = Complete) = (Flushless.x.state = Complete)
        /\ x.fatal = Flushless.x.fatal
        /\ x.error_message = Flushless.x.error_message

\* the messages of the first n groups of `completed`, in order
RECURSIVE Gathered(_, _)
Gathered(completed, n) ==
    IF n = 0 THEN << >> ELSE Gathered(completed, n - 1) \o completed[n].msgs

\* the transaction state of the last Ready the Instruction has consumed,
\* "unset" if it has consumed none
ReadyOf(t) ==
    LET r == SelectSeq(Gathered(t.completed, Len(t.completed)),
                       LAMBDA m : m.type = "Ready")
    IN  IF r = << >> THEN "unset" ELSE r[Len(r)].data

\* the call of step() or complete() for the transaction id returns in this
\* step, nothing raised and the transaction not failed for good
ReturnsWell(id) ==
    /\ raised' = "none"
    /\ id = Completing => xs'[id].state = Complete
    /\ xs'[id].fatal # "True"

\* C36: when step() or complete() returns without a failure, Connection.state
\* is the transaction state of the last Ready that the mounted transaction
\* has consumed, and what it was before when it has consumed none.
C36_LastReady ==
    [][\A id \in {Stepped, Completing} \ {0} :
          ReturnsWell(id) =>
            conn'.state = IF ReadyOf(xs'[id]) = "unset" THEN conn.state
                          ELSE ReadyOf(xs'[id])]_vars

\* complete() has returned for an instruction that consumed a Ready in a
\* transaction block, after a Connection that was idle
C36_Witness ==
    /\ stack = << >>
    /\ raised = "none"
    /\ conn.state = "T"
    /\ conn.xact = 0
    /\ \E id \in 2 .. Len(xs) :
         /\ xs[id].state = Complete
         /\ xs[id].fatal # "True"
         /\ ReadyOf(xs[id]) = "T"

\* the first n messages of the group that are at the positions S, parsed,
\* in the order of the wire
RECURSIVE Picked(_, _, _)
Picked(msgs, S, n) ==
    IF n = 0 THEN << >>
    ELSE Picked(msgs, S, n - 1)
           \o (IF n \in S THEN <<parse(msgs[n])>> ELSE << >>)

\* a group is put, for the first time or again
Puts == groups' = groups + 1 \/ replays' = replays + 1

\* C37: the asynchronous messages of a group reach the asynchook in the
\* order of the wire, and no call of the hook for a group comes after the
\* group was appended to completed.
C37_HookOrder ==
    [][Puts =>
          /\ hooked' = hooked \o Picked(group'.msgs, calls', Len(group'.msgs))
          /\ hooked' # hooked =>
                \A k \in 1 .. Len(x.completed) : x.completed[k].id # group'.id]_vars

\* two different asynchronous messages of one group have reached the hook
\* and the group is in completed
C37_Witness ==
    /\ calls = {1, 2}
    /\ group.msgs[1] # group.msgs[2]
    /\ Len(hooked) >= 2
    /\ x.completed # << >>
    /\ x.completed[Len(x.completed)].id = group.id

\* complete() is under way for the transaction id
InComplete(id) ==
    \E i \in 1 .. Len(stack) : stack[i] = Frame("complete", id)

Validated(i) ==
    /\ ~NoHook(CmdAt(trace[i]))
    /\ trace[i].msg.type \in DOMAIN hook(CmdAt(trace[i]))[trace[i].step + 1]

\* what that parser made of it
ParsedAt(i) ==
    Apply(hook(CmdAt(trace[i]))[trace[i].step + 1][trace[i].msg.type].path,
          trace[i].msg)

\* C39: once the instruction is Complete, every message that the last
\* standard_put validated and parsed is in the entry of its group in
\* completed, whatever ended the put.
C39_ParsedKept ==
    x.state = Complete =>
        \A i \in 1 .. Len(trace) :
            Validated(i) =>
                \E k \in 1 .. Len(x.completed) :
                    /\ x.completed[k].id = group.id
                    /\ \E j \in 1 .. Len(x.completed[k].msgs) :
                           x.completed[k].msgs[j] = ParsedAt(i)

\* the transaction whose continuation this step of the model calls, 0 if
\* none
Acting == IF Stepped # 0 THEN Stepped ELSE Completing

\* the transaction that was in the slot just before k, 0 if none
Previous(k) ==
    LET S == {i \in 1 .. Len(mounts) : mounts[i] = k}
        i == CHOOSE i \in S : \A j \in S : j <= i
    IN  IF S = {} \/ i = 1 THEN 0 ELSE mounts[i - 1]

\* Connection.read holds the messages on which the continuation of the
\* transaction before k raised, and k has not taken a message yet
Secondhand(k) ==
    /\ k > 1
    /\ Previous(k) # 0
    /\ xs[Previous(k)].exception = "Exception"
    /\ conn.read.msgs # << >>
    /\ xs[k].state[1] = Receiving
    /\ xs[k].completed = << >>

\* q is what is left of p after some of its first messages were taken
Suffix(q, p) ==
    \E n \in 0 .. Len(p) : q = SubSeq(p, n + 1, Len(p))

\* what is left in Connection.read is not read over and loses only its
\* first messages
LeftoverKept ==
    conn.read.msgs # << >> =>
        /\ delivered' = delivered
        /\ Suffix(conn'.read.msgs, conn.read.msgs)

\* messages leave Connection.read only through the receiving continuation
\* of the transaction in the slot
TakenByOne ==
    conn'.read.msgs # conn.read.msgs =>
        /\ Acting # 0
        /\ Acting = conn.xact
        /\ xs[Acting].state[1] = Receiving

\* no more is left of a group than was read
LeftOfRead ==
    conn.read.msgs = << >> => Len(conn'.read.msgs) <= delivered' - delivered

\* no transaction is given the messages that another one was given before
NoSecondhand ==
    \A k \in {Acting} \ {0} : Secondhand(k) => xs'[k] = xs[k]

\* C40: every message read is consumed by one transaction, in the order of
\* the wire: what a transaction leaves in Connection.read stays there, is
\* given first to the next receiving continuation, and no message is given
\* to two transactions.
C40_ConsumedOnce ==
    [][LeftoverKept /\ TakenByOne /\ LeftOfRead /\ NoSecondhand]_vars

\* the part of it that is about what is left in Connection.read
C40_Kept == [][LeftoverKept /\ TakenByOne /\ LeftOfRead]_vars
====
